---- MODULE Spec2Model ----
(***************************************************************************)
(* Whale monitor: the wallet poller (monitor.py), the SQLite store         *)
(* (database.py), the BlockCypher / CoinGecko client (blockchain_api.py)   *)
(* and the exchange registry (exchange_db.py).                             *)
(*                                                                         *)
(* Amounts are kept in base units (1e-8 coin): amount_native = k stands    *)
(* for the float k / 1e8, amount_usd = k for k / 1e8 dollars.  A Python    *)
(* None is the empty set and a present value x the singleton {x}.          *)
(***************************************************************************)
EXTENDS Integers, Sequences, FiniteSets, TLC

\* ------------------------------------------------------------------ bounds
\* Highest block the modelled chain reaches.
MaxHeight == 3
\* Page size of the BlockCypher /full endpoint (min(limit, 50) in the
\* source), scaled down so that a backlog larger than one page is reachable.
ApiMaxLimit == 2
\* Most transactions waiting in the mempool at one time.
MaxMempool == 1

\* Default limit of get_recent_transactions (100 in the source), the limit
\* get_significant_transactions passes (1000) and the one
\* generate_summary_stats passes (10000), scaled down so that a window with
\* more records than the limit is reachable.
RecentLimit == 1
SignificantLimit == 2
SummaryLimit == 2
\* limit=5 of get_most_active_wallets, scaled down so that a window with
\* more wallets than the limit is reachable.
MostActiveLimit == 1
\* Starts of the application and calls of the digest job in a run.
MaxDigestJobs == 3
\* The hour the clock of a run with purges stops at: 31 days.
MaxClock == 744
\* The hour the clock of a run of digest jobs stops at: a day and a half.
MaxDigestClock == 36
\* Amounts of the analyzer's records are counted in tenths of a coin (the
\* source holds floats of whole coins); dollars likewise.
UnitsPerCoin == 10

\* --------------------------------------------------------------- constants
\* limit=1 of the first check of a wallet.
BootstrapLimit == 1
\* block_height BlockCypher reports for a transaction not yet in a block.
UnconfirmedHeight == -1
\* get_wallet_last_block's result when the wallet has no tracking row.
NoLastBlock == 0

\* Hours of a day (hours / 24.0, JULIANDAY differences).
HoursPerDay == 24
\* unusual_activity_multiplier
UnusualActivityMultiplier == 3
\* Lookback of the historical average, in days.
HistoryDays == 30
\* analyze_transaction: hours=24 and days=7 of its two lookups.
UnusualHours == 24
PatternDays == 7
\* min(score, 10)
MaxScore == 10
\* cleanup_old_transactions(days=30)
RetentionDays == 30

None == {}
Some(x) == {x}

Min(a, b) == IF a < b THEN a ELSE b
Max(a, b) == IF a > b THEN a ELSE b

\* ------------------------------------------------ wallets and the registry
Coins == {"BTC"}
\* parse_all_wallets: the tracked wallets of each coin, in file order.
Wallets == [BTC |-> << [address |-> "w1", rank |-> 1],
                       [address |-> "w2", rank |-> 2] >>]
Tracked == {[address |-> Wallets[c][i].address, rank |-> Wallets[c][i].rank,
             coin_type |-> c] : c \in Coins, i \in 1..2}

\* ExchangeDatabase.btc_exchanges: address -> exchange name.
Exchanges == [BTC |-> ("e1" :> "Binance" @@ "e2" :> "Kraken")]

IsExchangeAddress(address, coin_type) ==
    /\ coin_type \in DOMAIN Exchanges
    /\ address \in DOMAIN Exchanges[coin_type]

GetExchangeName(address, coin_type) ==
    IF IsExchangeAddress(address, coin_type)
    THEN Some(Exchanges[coin_type][address]) ELSE None

\* ------------------------------------------------ the chain (the upstream)
\* The transactions the network can produce: hash -> inputs and outputs as
\* BlockCypher reports them.  They reach the network in the order of
\* HashOrder (the names are labels; a name says when a transaction arrives).
Hashes == {"t1", "t2", "t3", "t4"}
HashOrder == <<"t1", "t2", "t3", "t4">>
\* t1, t3: w1 receives.  t2: w1 spends two inputs, to two exchanges and to
\* w2.  t4: w1 is listed in an output of value 0.
TxBody ==
    [t1 |-> [inputs  |-> << [addresses |-> <<"e1">>, output_value |-> 5] >>,
             outputs |-> << [addresses |-> <<"w1">>, value |-> 5] >>],
     t2 |-> [inputs  |-> << [addresses |-> <<"w1">>, output_value |-> 4],
                            [addresses |-> <<"w1">>, output_value |-> 1] >>,
             outputs |-> << [addresses |-> <<"e1">>, value |-> 2],
                            [addresses |-> <<"e2">>, value |-> 1],
                            [addresses |-> <<"w2">>, value |-> 2] >>],
     t3 |-> [inputs  |-> << [addresses |-> <<"x">>, output_value |-> 2] >>,
             outputs |-> << [addresses |-> <<"w1">>, value |-> 2] >>],
     t4 |-> [inputs  |-> << [addresses |-> <<"x">>, output_value |-> 4] >>,
             outputs |-> << [addresses |-> <<"x">>, value |-> 4],
                            [addresses |-> <<"w1">>, value |-> 0] >>]]

\* USD prices CoinGecko may report.
Prices == {2}

Pollers == {"p1", "p2"}

VARIABLES
    broadcast,        \* hashes the network knows
    block_of,         \* hash -> block height, UnconfirmedHeight while in the mempool
    tip,              \* height of the newest block
    transactions,     \* table transactions: the set of its rows (without id, detected_at)
    wallet_tracking,  \* table wallet_tracking: set of rows
    price_cache,      \* BlockchainAPIClient.price_cache: coin -> None | {price}
    pc,               \* poller -> position in check_wallet; "returned", "error" and
                      \* "crashed" are a call that ended, its locals still visible
    wallet,           \* poller -> the wallet being checked
    last_block,       \* poller -> local last_block
    batch,            \* poller -> local transactions (the fetched list)
    idx,              \* poller -> position of the for loop in batch
    current_price,    \* poller -> local current_price
    new_txs,          \* poller -> local new_txs
    ret,              \* poller -> value the call returned
    hist,             \* poller -> what the running call has done so far
    set_order,        \* the iteration order of address sets in this process
    now,              \* the clock, in hours
    analysis,         \* the last call of the analyzer and what it returned
    cycle,            \* check_all_wallets: where its loop stands, the wallets it
                      \* has called check_wallet for, and how it ended
    detected,         \* column detected_at of table transactions: key of a row ->
                      \* the hour it was inserted
    last_digest_date, \* WhaleMonitorApp.last_digest_date: None | {date}
    digest_jobs,      \* the starts of the application and the calls of
                      \* send_daily_digest_job so far, each with its date and outcome
    purged            \* the keys of the rows cleanup_old_transactions has deleted

vars == <<broadcast, block_of, tip, transactions, wallet_tracking, price_cache,
          pc, wallet, last_block, batch, idx, current_price,
          new_txs, ret, hist, set_order, now, analysis, cycle,
          detected, last_digest_date, digest_jobs, purged>>

chainVars == <<broadcast, block_of, tip>>
storeVars == <<transactions, wallet_tracking>>
priceVars == <<price_cache, set_order>>
localVars == <<wallet, last_block, batch, idx, current_price, new_txs>>
analyzerVars == <<now, analysis>>
jobVars == <<detected, last_digest_date, digest_jobs, purged>>

\* ------------------------------------------------------------- sequences
RECURSIVE SelectSeqOf(_, _)
\* The subsequence of s whose elements are in the set keep.
SelectSeqOf(s, keep) ==
    IF s = <<>> THEN <<>>
    ELSE IF Head(s) \in keep THEN <<Head(s)>> \o SelectSeqOf(Tail(s), keep)
    ELSE SelectSeqOf(Tail(s), keep)

Range(s) == {s[i] : i \in DOMAIN s}

RECURSIVE Flatten(_)
\* list.extend over a sequence of sequences.
Flatten(ss) == IF ss = <<>> THEN <<>> ELSE Head(ss) \o Flatten(Tail(ss))

RECURSIVE SumSeq(_)
SumSeq(s) == IF s = <<>> THEN 0 ELSE Head(s) + SumSeq(Tail(s))

\* The orders in which a Python set of addresses can be iterated: the order
\* follows from the string hashes, which are fixed when the process starts.
\* An order here lists every address; a set is iterated in the order of its
\* members in it.
SetOrders == {<<"e1", "e2", "w1", "w2", "x">>, <<"x", "w2", "w1", "e2", "e1">>}

\* Iterating the set S under the order o.
Iterate(S, o) == SelectSeqOf(o, S)

\* ------------------------------------------------------------ BlockCypher
\* The addresses of a transaction's inputs and outputs.
TxAddresses(h) ==
    UNION {Range(TxBody[h].inputs[i].addresses) : i \in DOMAIN TxBody[h].inputs}
    \cup
    UNION {Range(TxBody[h].outputs[i].addresses) : i \in DOMAIN TxBody[h].outputs}

\* t is listed before u by the address endpoint: mempool first, then by
\* block height, newest first.
Newer(t, u) ==
    \/ block_of[t] = UnconfirmedHeight /\ block_of[u] # UnconfirmedHeight
    \/ /\ block_of[t] # UnconfirmedHeight
       /\ block_of[u] # UnconfirmedHeight
       /\ block_of[t] > block_of[u]

\* HashOrder, last arrival first.
LatestFirst == [i \in DOMAIN HashOrder |-> HashOrder[Len(HashOrder) + 1 - i]]

RECURSIVE NewestFirst(_, _)
\* The hashes of S, newest block first and within a block the last arrival
\* first.  k runs from the newest block down to 1.
NewestFirst(S, k) ==
    IF k < 1 THEN <<>>
    ELSE SelectSeqOf(LatestFirst, {h \in S : block_of[h] = k}) \o NewestFirst(S, k - 1)

\* The "txs" array of GET /addrs/{address}/full?limit=n.
ApiTxs(address, n) ==
    LET S   == {h \in broadcast : address \in TxAddresses(h)}
        all == SelectSeqOf(LatestFirst, {h \in S : block_of[h] = UnconfirmedHeight})
               \o NewestFirst(S, tip)
    IN  SubSeq(all, 1, Min(n, Len(all)))

\* get_address_transactions that takes a failed request for an answer.
GetAddressTransactions_IgnoreError(address, coin_type, limit, ok) ==
    LET txs == ApiTxs(address, Min(limit, ApiMaxLimit))
    IN  [i \in DOMAIN txs |->
           [hash         |-> txs[i],
            block_height |-> block_of[txs[i]],
            confirmed    |-> block_of[txs[i]] # UnconfirmedHeight,
            inputs       |-> TxBody[txs[i]].inputs,
            outputs      |-> TxBody[txs[i]].outputs]]

\* get_address_transactions: the request, then one dict per returned tx.
\* ok = FALSE is _make_request returning None (HTTP error, 429, timeout).
GetAddressTransactions(address, coin_type, limit, ok) ==
    IF ~ok THEN <<>>
    ELSE LET txs == ApiTxs(address, Min(limit, ApiMaxLimit))
         IN  [i \in DOMAIN txs |->
                [hash         |-> txs[i],
                 block_height |-> block_of[txs[i]],
                 confirmed    |-> block_of[txs[i]] # UnconfirmedHeight,
                 inputs       |-> TxBody[txs[i]].inputs,
                 outputs      |-> TxBody[txs[i]].outputs]]

\* get_latest_transactions: one page, filtered by block height.
GetLatestTransactions(address, coin_type, since_block, ok) ==
    LET all_txs == GetAddressTransactions(address, coin_type, ApiMaxLimit, ok)
    IN  SelectSeq(all_txs, LAMBDA tx : tx.block_height > since_block)

\* --------------------------------------------------------------- CoinGecko
\* What the price request can do: raise, or answer with a price.
PriceResponses ==
    {[ok |-> FALSE, price |-> None]}
    \cup {[ok |-> TRUE, price |-> Some(p)] : p \in Prices}

\* get_price: the value returned.  fresh: the cached price is younger than
\* price_cache_duration; resp: what the request does if it is made.
GetPrice(cache, fresh, coin_type, resp) ==
    IF cache[coin_type] # None /\ fresh THEN cache[coin_type]
    ELSE IF resp.ok THEN resp.price
    ELSE cache[coin_type]

\* get_price: the cache after the call.
GetPriceCache(cache, fresh, coin_type, resp) ==
    IF cache[coin_type] # None /\ fresh THEN cache
    ELSE IF resp.ok /\ resp.price # None
         THEN [cache EXCEPT ![coin_type] = resp.price]
    ELSE cache

\* ------------------------------------------------------------ the database
TxKey(r) == <<r.tx_hash, r.wallet_address>>

StoredKeys(table) == {TxKey(r) : r \in table}

\* add_transaction on a table without UNIQUE(tx_hash, wallet_address).
AddTransactionOk_NoUnique(table, tx_data, db_error) == ~db_error

\* add_transaction: db_error is sqlite raising anything but IntegrityError.
AddTransactionOk(table, tx_data, db_error) ==
    /\ ~db_error
    /\ TxKey(tx_data) \notin StoredKeys(table)

\* add_transaction on a table that takes a second row for a stored pair.
AddTransaction_AlwaysInserts(table, tx_data, db_error) ==
    IF db_error THEN table ELSE table \cup {tx_data}

\* add_transaction with INSERT OR REPLACE.
AddTransaction_Replace(table, tx_data, db_error) ==
    IF db_error THEN table
    ELSE {r \in table : TxKey(r) # TxKey(tx_data)} \cup {tx_data}

\* add_transaction: the table after the call.
AddTransaction(table, tx_data, db_error) ==
    IF AddTransactionOk(table, tx_data, db_error)
    THEN table \cup {tx_data} ELSE table

TrackingRows(rows, wallet_address, coin_type) ==
    {r \in rows : r.wallet_address = wallet_address /\ r.coin_type = coin_type}

\* get_wallet_last_block
GetWalletLastBlock(rows, wallet_address, coin_type) ==
    LET found == TrackingRows(rows, wallet_address, coin_type)
    IN  IF found = {} THEN NoLastBlock
        ELSE (CHOOSE r \in found : TRUE).last_block_height

\* update_wallet_tracking with last_block_height = ? in place of MAX(...).
UpdateWalletTracking_NoMax(rows, wallet_address, coin_type, block_height, wallet_rank) ==
    (rows \ {r \in rows : r.wallet_address = wallet_address /\ r.coin_type = coin_type})
    \cup {[wallet_address    |-> wallet_address,
           coin_type         |-> coin_type,
           wallet_rank       |-> wallet_rank,
           last_block_height |-> block_height,
           transaction_count |->
               1 + Cardinality({r \in rows : r.wallet_address = wallet_address
                                              /\ r.coin_type = coin_type})]}

\* update_wallet_tracking: INSERT ... ON CONFLICT DO UPDATE.
UpdateWalletTracking(rows, wallet_address, coin_type, block_height, wallet_rank) ==
    LET found == TrackingRows(rows, wallet_address, coin_type)
    IN  IF found = {}
        THEN rows \cup {[wallet_address    |-> wallet_address,
                         coin_type         |-> coin_type,
                         wallet_rank       |-> wallet_rank,
                         last_block_height |-> block_height,
                         transaction_count |-> 1]}
        ELSE (rows \ found) \cup
             {[r EXCEPT !.last_block_height = Max(r.last_block_height, block_height),
                        !.transaction_count = r.transaction_count + 1,
                        !.wallet_rank       = wallet_rank] : r \in found}

\* ------------------------------------------------------------ the classifier
Count(s, x) == Cardinality({i \in DOMAIN s : s[i] = x})

\* Base units the wallet spends: one output_value per occurrence of the
\* wallet in an input's addresses.
InputAmount(tx, wallet_address) ==
    SumSeq([i \in DOMAIN tx.inputs |->
              Count(tx.inputs[i].addresses, wallet_address) * tx.inputs[i].output_value])

OutputAmount(tx, wallet_address) ==
    SumSeq([i \in DOMAIN tx.outputs |->
              Count(tx.outputs[i].addresses, wallet_address) * tx.outputs[i].value])

IsOutgoing(tx, wallet_address) ==
    \E i \in DOMAIN tx.inputs : wallet_address \in Range(tx.inputs[i].addresses)

AmountNative(tx, wallet_address) ==
    IF IsOutgoing(tx, wallet_address) THEN InputAmount(tx, wallet_address)
    ELSE OutputAmount(tx, wallet_address)

FromAddresses(tx) == Flatten([i \in DOMAIN tx.inputs |-> tx.inputs[i].addresses])
ToAddresses(tx) == Flatten([i \in DOMAIN tx.outputs |-> tx.outputs[i].addresses])
AllAddresses(tx) == Range(FromAddresses(tx) \o ToAddresses(tx))

\* The exchange loop without `if addr != wallet_address`.
ExchangeHits_OwnAddress(order, wallet_address, coin_type) ==
    {i \in DOMAIN order : IsExchangeAddress(order[i], coin_type)}

\* The addresses of the iteration `order` that make the exchange loop break.
ExchangeHits(order, wallet_address, coin_type) ==
    {i \in DOMAIN order : order[i] # wallet_address /\ IsExchangeAddress(order[i], coin_type)}

\* for addr in all_addresses: ... break  (order = the set's iteration order)
ExchangeName(order, wallet_address, coin_type) ==
    LET hits == ExchangeHits(order, wallet_address, coin_type)
    IN  IF hits = {} THEN None
        ELSE GetExchangeName(order[CHOOSE i \in hits : \A j \in hits : i <= j], coin_type)

\* amount_usd: None unless current_price is truthy.
AmountUsd(amount_native, price) ==
    IF price = None THEN None
    ELSE LET p == CHOOSE x \in price : TRUE
         IN  IF p = 0 THEN None ELSE Some(amount_native * p)

\* _process_transaction without `if amount_native == 0: return None`.
ProcessTransaction_KeepsZero(tx, wallet_address, wallet_rank, coin_type, price, order) ==
    Some([tx_hash             |-> tx.hash,
          coin_type           |-> coin_type,
          wallet_address      |-> wallet_address,
          wallet_rank         |-> wallet_rank,
          amount_native       |-> AmountNative(tx, wallet_address),
          amount_usd          |-> AmountUsd(AmountNative(tx, wallet_address), price),
          from_addresses      |-> FromAddresses(tx),
          to_addresses        |-> ToAddresses(tx),
          is_outgoing         |-> IsOutgoing(tx, wallet_address),
          is_exchange_related |-> ExchangeHits(order, wallet_address, coin_type) # {},
          exchange_name       |-> ExchangeName(order, wallet_address, coin_type),
          block_height        |-> tx.block_height,
          confirmed           |-> tx.confirmed])

\* _process_transaction that gives up on a transaction without a price.
ProcessTransaction_NeedsPrice(tx, wallet_address, wallet_rank, coin_type, price, order) ==
    IF AmountNative(tx, wallet_address) = 0 \/ price = None THEN None
    ELSE Some([tx_hash             |-> tx.hash,
               coin_type           |-> coin_type,
               wallet_address      |-> wallet_address,
               wallet_rank         |-> wallet_rank,
               amount_native       |-> AmountNative(tx, wallet_address),
               amount_usd          |-> AmountUsd(AmountNative(tx, wallet_address), price),
               from_addresses      |-> FromAddresses(tx),
               to_addresses        |-> ToAddresses(tx),
               is_outgoing         |-> IsOutgoing(tx, wallet_address),
               is_exchange_related |-> ExchangeHits(order, wallet_address, coin_type) # {},
               exchange_name       |-> ExchangeName(order, wallet_address, coin_type),
               block_height        |-> tx.block_height,
               confirmed           |-> tx.confirmed])

\* _process_transaction: None, or the singleton of the record.
ProcessTransaction(tx, wallet_address, wallet_rank, coin_type, price, order) ==
    IF AmountNative(tx, wallet_address) = 0 THEN None
    ELSE Some([tx_hash             |-> tx.hash,
               coin_type           |-> coin_type,
               wallet_address      |-> wallet_address,
               wallet_rank         |-> wallet_rank,
               amount_native       |-> AmountNative(tx, wallet_address),
               amount_usd          |-> AmountUsd(AmountNative(tx, wallet_address), price),
               from_addresses      |-> FromAddresses(tx),
               to_addresses        |-> ToAddresses(tx),
               is_outgoing         |-> IsOutgoing(tx, wallet_address),
               is_exchange_related |-> ExchangeHits(order, wallet_address, coin_type) # {},
               exchange_name       |-> ExchangeName(order, wallet_address, coin_type),
               block_height        |-> tx.block_height,
               confirmed           |-> tx.confirmed])

\* ------------------------------------------------------------------- Init
\* check_all_wallets is not running and has not run.
NoCycle == [at |-> 0, polled |-> <<>>, ended |-> "no"]

\* main.py 55: the application has started; no digest job has run.
AppStarted ==
    /\ last_digest_date = None
    /\ digest_jobs = <<>>
    /\ purged = {}

\* detected_at of the rows of a table that carry it.
DetectedColumn(table) ==
    [k \in StoredKeys(table) |-> (CHOOSE r \in table : TxKey(r) = k).detected_at]

FirstWallet == CHOOSE w \in Tracked : w.rank = 1

\* Positions inside a running call, and positions of a call that ended.
Running == {"fetch", "price", "loop", "update"}
Ended == {"returned", "error", "crashed"}

NoHist == [fetch_ok |-> FALSE, price_failed |-> FALSE, db_error |-> FALSE,
           inserted |-> {}, rerun |-> FALSE, start_rows |-> {}]

Init ==
    /\ now = 0
    /\ analysis = None
    /\ cycle = NoCycle
    /\ AppStarted
    /\ broadcast = {}
    /\ block_of = [h \in Hashes |-> UnconfirmedHeight]
    /\ tip = 0
    /\ transactions = {}
    /\ wallet_tracking = {}
    /\ price_cache = [c \in Coins |-> None]
    /\ pc = [p \in Pollers |-> "idle"]
    /\ wallet = [p \in Pollers |-> FirstWallet]
    /\ last_block = [p \in Pollers |-> NoLastBlock]
    /\ batch = [p \in Pollers |-> <<>>]
    /\ idx = [p \in Pollers |-> 0]
    /\ current_price = [p \in Pollers |-> None]
    /\ new_txs = [p \in Pollers |-> <<>>]
    /\ ret = [p \in Pollers |-> <<>>]
    /\ hist = [p \in Pollers |-> NoHist]
    /\ set_order \in SetOrders
    /\ detected = [k \in StoredKeys(transactions) |-> now]

\* ------------------------------------------------------------ the upstream
\* The chain changes only while no call is running: a call works on the list
\* it fetched, so a change after its fetch acts like one after its return.
ChainMayChange == \A p \in Pollers : pc[p] = "idle"

\* The hashes that have not reached the network, in the order they will.
Pending == SelectSeqOf(HashOrder, Hashes \ broadcast)

\* The hashes waiting in the mempool, in the order they arrived.
Mempool == SelectSeqOf(HashOrder, {h \in broadcast : block_of[h] = UnconfirmedHeight})

\* A transaction enters the mempool.
Broadcast(h) ==
    /\ UNCHANGED <<analyzerVars, cycle, jobVars>>
    /\ Pending # <<>>
    /\ h = Head(Pending)
    /\ Len(Mempool) < MaxMempool
    /\ broadcast' = broadcast \cup {h}
    /\ ChainMayChange
    /\ UNCHANGED <<block_of, tip, storeVars, priceVars, pc, localVars, ret, hist>>

\* A block is mined with the transactions S.
MineBlock(S) ==
    /\ UNCHANGED <<analyzerVars, cycle, jobVars>>
    /\ tip < MaxHeight
    /\ S # {}
    /\ \E k \in 1..Len(Mempool \o Pending) : S = Range(SubSeq(Mempool \o Pending, 1, k))
    /\ tip' = tip + 1
    /\ broadcast' = broadcast \cup S
    /\ block_of' = [h \in Hashes |-> IF h \in S THEN tip + 1 ELSE block_of[h]]
    /\ ChainMayChange
    /\ UNCHANGED <<storeVars, priceVars, pc, localVars, ret, hist>>

\* ------------------------------------------------------------ check_wallet
\* monitor.py 51-55: read the cursor.
ReadCursor(p, w) ==
    /\ UNCHANGED <<analyzerVars, jobVars>>
    /\ pc[p] = "idle"
    /\ pc' = [pc EXCEPT ![p] = "fetch"]
    /\ wallet' = [wallet EXCEPT ![p] = w]
    /\ last_block' = [last_block EXCEPT
                        ![p] = GetWalletLastBlock(wallet_tracking, w.address, w.coin_type)]
    /\ hist' = [hist EXCEPT ![p] =
                  [NoHist EXCEPT !.start_rows = TrackingRows(wallet_tracking, w.address, w.coin_type)]]
    /\ UNCHANGED <<chainVars, storeVars, priceVars, batch, idx, current_price,
                   new_txs, ret>>

\* check_wallet is called for the wallet w.
StartCheck(p, w) == ReadCursor(p, w) /\ UNCHANGED cycle

\* check_wallet is called again for the wallet of the call that just
\* returned, before the chain changes.  rerun: that call fetched and met no
\* database error.
Recheck(p) ==
    /\ UNCHANGED <<analyzerVars, cycle, jobVars>>
    /\ pc[p] = "returned"
    /\ pc' = [pc EXCEPT ![p] = "fetch"]
    /\ last_block' = [last_block EXCEPT
                        ![p] = GetWalletLastBlock(wallet_tracking, wallet[p].address,
                                                  wallet[p].coin_type)]
    /\ batch' = [batch EXCEPT ![p] = <<>>]
    /\ idx' = [idx EXCEPT ![p] = 0]
    /\ current_price' = [current_price EXCEPT ![p] = None]
    /\ new_txs' = [new_txs EXCEPT ![p] = <<>>]
    /\ ret' = [ret EXCEPT ![p] = <<>>]
    /\ hist' = [hist EXCEPT ![p] =
                  [NoHist EXCEPT !.rerun = hist[p].fetch_ok /\ ~hist[p].db_error,
                                 !.start_rows = TrackingRows(wallet_tracking, wallet[p].address,
                                                             wallet[p].coin_type)]]
    /\ UNCHANGED <<chainVars, storeVars, priceVars, wallet>>

\* check_wallet without limit=1 on the first check.
FetchedTransactions_NoLimit(address, coin_type, since, ok) ==
    GetLatestTransactions(address, coin_type, since, ok)

\* check_wallet with limit=1 on every check.
FetchedTransactions_LatestOnly(address, coin_type, since, ok) ==
    SelectSeq(GetAddressTransactions(address, coin_type, BootstrapLimit, ok),
              LAMBDA tx : tx.block_height > since)

\* monitor.py 59-64: the list check_wallet fetches.
FetchedTransactions(address, coin_type, since, ok) ==
    IF since = 0
    THEN GetAddressTransactions(address, coin_type, BootstrapLimit, ok)
    ELSE GetLatestTransactions(address, coin_type, since, ok)

\* monitor.py 58-67: fetch; an empty or failed fetch returns [].
Fetch(p) ==
    /\ UNCHANGED <<analyzerVars, cycle, jobVars>>
    /\ pc[p] = "fetch"
    /\ \E ok \in BOOLEAN :
         LET txs == FetchedTransactions(wallet[p].address, wallet[p].coin_type, last_block[p], ok)
         IN  /\ hist' = [hist EXCEPT ![p].fetch_ok = ok]
             /\ batch' = [batch EXCEPT ![p] = txs]
             /\ IF txs = <<>>
                THEN pc' = [pc EXCEPT ![p] = "returned"]
                ELSE pc' = [pc EXCEPT ![p] = "price"]
    /\ UNCHANGED <<chainVars, storeVars, priceVars, wallet, last_block, idx,
                   current_price, new_txs, ret>>

\* monitor.py 70-71: new_txs = [], current_price = get_price(coin_type).
FetchPrice(p) ==
    /\ UNCHANGED <<analyzerVars, cycle, jobVars>>
    /\ pc[p] = "price"
    /\ UNCHANGED set_order
    /\ \E resp \in PriceResponses, fresh \in BOOLEAN :
         LET c   == wallet[p].coin_type
             hit == price_cache[c] # None /\ fresh
         IN  /\ current_price' = [current_price EXCEPT
                                    ![p] = GetPrice(price_cache, fresh, c, resp)]
             /\ price_cache' = GetPriceCache(price_cache, fresh, c, resp)
             /\ hist' = [hist EXCEPT ![p].price_failed = ~hit /\ ~resp.ok]
    /\ pc' = [pc EXCEPT ![p] = "loop"]
    /\ idx' = [idx EXCEPT ![p] = 1]
    /\ UNCHANGED <<chainVars, storeVars, wallet, last_block, batch, new_txs, ret>>

\* database.py 49: detected_at DEFAULT CURRENT_TIMESTAMP, the column after
\* add_transaction: the row it inserted was detected now.
DetectedAfter(table, col, tx_data, db_error) ==
    [k \in StoredKeys(AddTransaction(table, tx_data, db_error)) |->
        IF k \in DOMAIN col /\ ~AddTransactionOk(table, tx_data, db_error)
        THEN col[k]
        ELSE IF k = TxKey(tx_data) THEN now ELSE col[k]]

\* monitor.py 73-83: classify batch[idx]; a record is appended to new_txs and
\* handed to add_transaction; then the loop either goes on to
\* update_wallet_tracking or to the next transaction.
Ingest(p) ==
    /\ UNCHANGED <<analyzerVars, cycle, last_digest_date, digest_jobs, purged>>
    /\ pc[p] = "loop"
    /\ idx[p] <= Len(batch[p])
    /\ \E db_error \in BOOLEAN :
         LET tx        == batch[p][idx[p]]
             order     == Iterate(AllAddresses(tx), set_order)
             processed == ProcessTransaction(tx, wallet[p].address, wallet[p].rank,
                                             wallet[p].coin_type, current_price[p], order)
             rec       == CHOOSE r \in processed : TRUE
         IN  IF processed = None
             THEN /\ idx' = [idx EXCEPT ![p] = @ + 1]
                  /\ UNCHANGED <<transactions, detected, new_txs, pc, hist>>
             ELSE /\ new_txs' = [new_txs EXCEPT ![p] = Append(@, rec)]
                  /\ transactions' = AddTransaction(transactions, rec, db_error)
                  /\ detected' = DetectedAfter(transactions, detected, rec, db_error)
                  /\ hist' = [hist EXCEPT
                       ![p].inserted = IF AddTransactionOk(transactions, rec, db_error)
                                       THEN @ \cup {TxKey(rec)} ELSE @,
                       ![p].db_error = @ \/ db_error]
                  /\ IF tx.block_height > last_block[p]
                     THEN /\ pc' = [pc EXCEPT ![p] = "update"]
                          /\ UNCHANGED idx
                     ELSE /\ idx' = [idx EXCEPT ![p] = @ + 1]
                          /\ UNCHANGED pc
    /\ UNCHANGED <<chainVars, wallet_tracking, priceVars, wallet, last_block, batch,
                   current_price, ret>>

\* monitor.py 84: update_wallet_tracking; an exception it raises is caught
\* at line 88 and check_wallet returns [].
UpdateTracking(p) ==
    /\ UNCHANGED <<analyzerVars, cycle, jobVars>>
    /\ pc[p] = "update"
    /\ \E db_error \in BOOLEAN :
         IF db_error
         THEN /\ pc' = [pc EXCEPT ![p] = "error"]
              /\ hist' = [hist EXCEPT ![p].db_error = TRUE]
              /\ UNCHANGED <<wallet_tracking, idx>>
         ELSE /\ wallet_tracking' =
                    UpdateWalletTracking(wallet_tracking, wallet[p].address,
                                         wallet[p].coin_type,
                                         batch[p][idx[p]].block_height, wallet[p].rank)
              /\ idx' = [idx EXCEPT ![p] = @ + 1]
              /\ pc' = [pc EXCEPT ![p] = "loop"]
              /\ UNCHANGED hist
    /\ ret' = [ret EXCEPT ![p] = <<>>]
    /\ UNCHANGED <<chainVars, transactions, priceVars, wallet, last_block, batch,
                   current_price, new_txs>>

\* monitor.py 86: return new_txs.
Return(p) ==
    /\ UNCHANGED <<analyzerVars, cycle, jobVars>>
    /\ pc[p] = "loop"
    /\ idx[p] > Len(batch[p])
    /\ pc' = [pc EXCEPT ![p] = "returned"]
    /\ ret' = [ret EXCEPT ![p] = new_txs[p]]
    /\ UNCHANGED <<chainVars, storeVars, priceVars, localVars, hist>>

\* The process dies inside check_wallet; what was committed stays.
Crash(p) ==
    /\ UNCHANGED <<analyzerVars, cycle, jobVars>>
    /\ pc[p] \in Running
    /\ pc' = [pc EXCEPT ![p] = "crashed"]
    /\ UNCHANGED <<chainVars, storeVars, priceVars, localVars, ret, hist>>

\* The caller is done with the returned list: the locals of the call are
\* gone.  After a crash the process starts again: the price cache is empty
\* and the string hashes are drawn anew.
ForgetLocals(p) ==
    /\ UNCHANGED <<analyzerVars, jobVars>>
    /\ pc[p] \in Ended
    /\ pc' = [pc EXCEPT ![p] = "idle"]
    /\ wallet' = [wallet EXCEPT ![p] = FirstWallet]
    /\ last_block' = [last_block EXCEPT ![p] = NoLastBlock]
    /\ batch' = [batch EXCEPT ![p] = <<>>]
    /\ idx' = [idx EXCEPT ![p] = 0]
    /\ current_price' = [current_price EXCEPT ![p] = None]
    /\ new_txs' = [new_txs EXCEPT ![p] = <<>>]
    /\ ret' = [ret EXCEPT ![p] = <<>>]
    /\ hist' = [hist EXCEPT ![p] = NoHist]
    /\ IF pc[p] = "crashed"
       THEN /\ set_order' \in SetOrders
            /\ price_cache' = [c \in Coins |-> None]
       ELSE UNCHANGED <<set_order, price_cache>>
    /\ UNCHANGED <<chainVars, storeVars>>

Finish(p) == ForgetLocals(p) /\ UNCHANGED cycle

\* The monitor checks one wallet at a time.
SeqPollers == {"p1"}

\* The checks of one wallet, with the chain, the mempool, the price service,
\* database errors and crashes around them.
Next ==
    \/ \E h \in Hashes : Broadcast(h)
    \/ \E S \in SUBSET Hashes : MineBlock(S)
    \/ \E p \in SeqPollers : StartCheck(p, FirstWallet)
    \/ \E p \in SeqPollers : Recheck(p)
    \/ \E p \in SeqPollers : Fetch(p)
    \/ \E p \in SeqPollers : FetchPrice(p)
    \/ \E p \in SeqPollers : Ingest(p)
    \/ \E p \in SeqPollers : UpdateTracking(p)
    \/ \E p \in SeqPollers : Return(p)
    \/ \E p \in SeqPollers : Crash(p)
    \/ \E p \in SeqPollers : Finish(p)

Spec == Init /\ [][Next]_vars

\* The checks of all tracked wallets, in any order, over blocks as they are
\* mined.
NextWallets ==
    \/ \E S \in SUBSET Hashes : MineBlock(S)
    \/ \E p \in SeqPollers, w \in Tracked : StartCheck(p, w)
    \/ \E p \in SeqPollers : Recheck(p)
    \/ \E p \in SeqPollers : Fetch(p)
    \/ \E p \in SeqPollers : FetchPrice(p)
    \/ \E p \in SeqPollers : Ingest(p)
    \/ \E p \in SeqPollers : UpdateTracking(p)
    \/ \E p \in SeqPollers : Return(p)
    \/ \E p \in SeqPollers : Finish(p)

SpecWallets == Init /\ [][NextWallets]_vars

\* Two check_wallet calls on the same wallet at once (two workers sharing
\* the store): the second is the one that starts while the first is inside
\* its call.  Every read and every write of the store is a step of its own.
OverlappingStart(p) ==
    /\ \A q \in Pollers \ {p} : q \in SeqPollers /\ pc[q] # "idle"
    /\ StartCheck(p, FirstWallet)

\* The states of the chain Broadcast and MineBlock lead to: the mined
\* transactions are the first arrivals, in blocks 1..tip none of which is
\* empty and in the order of arrival; those in the mempool arrived next.
ChainStates ==
    {c \in [broadcast : SUBSET Hashes, tip : 0..MaxHeight,
            block_of : [Hashes -> {UnconfirmedHeight} \cup 1..MaxHeight]] :
        /\ \A i, j \in DOMAIN HashOrder :
              (i < j /\ HashOrder[j] \in c.broadcast) => HashOrder[i] \in c.broadcast
        /\ \A h \in Hashes \ c.broadcast : c.block_of[h] = UnconfirmedHeight
        /\ {c.block_of[h] : h \in Hashes} \ {UnconfirmedHeight} = 1..c.tip
        /\ \A i, j \in DOMAIN HashOrder :
              (i < j /\ c.block_of[HashOrder[j]] # UnconfirmedHeight)
                  => /\ c.block_of[HashOrder[i]] # UnconfirmedHeight
                     /\ c.block_of[HashOrder[i]] <= c.block_of[HashOrder[j]]
        /\ Cardinality({h \in c.broadcast : c.block_of[h] = UnconfirmedHeight}) <= MaxMempool}

\* The store of a monitor that has never checked the wallet, and, where
\* block 1 holds the first transaction alone, the store its first check
\* left when block 1 was the tip.
StoreStates(c) ==
    {[transactions |-> {}, wallet_tracking |-> {}]}
    \cup
    {[transactions    |-> ProcessTransaction(
                            [hash |-> HashOrder[1], block_height |-> 1, confirmed |-> TRUE,
                             inputs |-> TxBody[HashOrder[1]].inputs,
                             outputs |-> TxBody[HashOrder[1]].outputs],
                            FirstWallet.address, FirstWallet.rank, FirstWallet.coin_type,
                            None, Iterate(TxAddresses(HashOrder[1]), o)),
      wallet_tracking |-> UpdateWalletTracking({}, FirstWallet.address,
                                               FirstWallet.coin_type, 1, FirstWallet.rank)] :
       o \in {x \in SetOrders : {h \in Hashes : c.block_of[h] = 1} = {HashOrder[1]}}}

\* Both workers are idle; the chain stays as it is while they check.
InitConcurrent ==
    /\ now = 0
    /\ analysis = None
    /\ cycle = NoCycle
    /\ AppStarted
    /\ \E c \in ChainStates :
         /\ broadcast = c.broadcast
         /\ block_of = c.block_of
         /\ tip = c.tip
         /\ \E st \in StoreStates(c) :
              /\ transactions = st.transactions
              /\ wallet_tracking = st.wallet_tracking
    /\ price_cache = [c \in Coins |-> None]
    /\ pc = [p \in Pollers |-> "idle"]
    /\ wallet = [p \in Pollers |-> FirstWallet]
    /\ last_block = [p \in Pollers |-> NoLastBlock]
    /\ batch = [p \in Pollers |-> <<>>]
    /\ idx = [p \in Pollers |-> 0]
    /\ current_price = [p \in Pollers |-> None]
    /\ new_txs = [p \in Pollers |-> <<>>]
    /\ ret = [p \in Pollers |-> <<>>]
    /\ hist = [p \in Pollers |-> NoHist]
    /\ set_order = CHOOSE o \in SetOrders : TRUE
    /\ detected = [k \in StoredKeys(transactions) |-> now]

NextConcurrent ==
    \/ \E p \in SeqPollers : StartCheck(p, FirstWallet)
    \/ \E p \in Pollers \ SeqPollers : OverlappingStart(p)
    \/ \E p \in Pollers : Fetch(p)
    \/ \E p \in Pollers : FetchPrice(p)
    \/ \E p \in Pollers : Ingest(p)
    \/ \E p \in Pollers : UpdateTracking(p)
    \/ \E p \in Pollers : Return(p)
    \/ \E p \in Pollers : Finish(p)

SpecConcurrent == InitConcurrent /\ [][NextConcurrent]_vars

\* run_continuous: check after check of the first wallet, for ever, over an
\* upstream that keeps its transactions.  Fetches fail or succeed; the
\* database and the process do not fail.
IngestStored(p) == Ingest(p) /\ ~hist'[p].db_error
TrackingUpdated(p) == UpdateTracking(p) /\ pc'[p] # "error"
FetchSucceeds(p) == Fetch(p) /\ hist'[p].fetch_ok
FetchFails(p) == Fetch(p) /\ ~hist'[p].fetch_ok

NextRetry ==
    \/ \E p \in SeqPollers : StartCheck(p, FirstWallet)
    \/ \E p \in SeqPollers : FetchSucceeds(p)
    \/ \E p \in SeqPollers : FetchFails(p)
    \/ \E p \in SeqPollers : FetchPrice(p)
    \/ \E p \in SeqPollers : IngestStored(p)
    \/ \E p \in SeqPollers : TrackingUpdated(p)
    \/ \E p \in SeqPollers : Return(p)
    \/ \E p \in SeqPollers : Finish(p)

\* The while True loop takes its next step whenever it has one, and of the
\* fetches it makes again and again one at last succeeds.
FairRetry ==
    /\ WF_vars(NextRetry)
    /\ SF_vars(\E p \in SeqPollers : FetchSucceeds(p))

SpecRetry == InitConcurrent /\ [][NextRetry]_vars /\ FairRetry

\* check_all_wallets: for coin_type, wallets in self.wallets.items(): for
\* wallet in wallets.  The wallets in the order of the two loops.
CycleWallets ==
    [i \in DOMAIN Wallets.BTC |->
        [address |-> Wallets.BTC[i].address, rank |-> Wallets.BTC[i].rank,
         coin_type |-> "BTC"]]

\* check_all_wallets is called.
BeginCycle ==
    /\ cycle.at = 0
    /\ \A p \in Pollers : pc[p] = "idle"
    /\ cycle' = [at |-> 1, polled |-> <<>>, ended |-> "no"]
    /\ UNCHANGED <<chainVars, storeVars, priceVars, pc, localVars, ret, hist, analyzerVars,
                   jobVars>>

\* monitor.py 176, 51-55: check_wallet is called for the next wallet and
\* reads its cursor.
PollWallet(p) ==
    /\ cycle.at \in DOMAIN CycleWallets
    /\ ReadCursor(p, CycleWallets[cycle.at])
    /\ cycle' = [cycle EXCEPT !.polled = Append(@, CycleWallets[cycle.at])]

\* monitor.py 55: get_wallet_last_block raises (sqlite3.OperationalError).
\* The read stands before the try of line 58: the exception leaves
\* check_wallet and check_all_wallets.
ReadCursorFails(p) ==
    /\ cycle.at \in DOMAIN CycleWallets
    /\ pc[p] = "idle"
    /\ cycle' = [cycle EXCEPT !.at = 0, !.ended = "raised"]
    /\ UNCHANGED <<chainVars, storeVars, priceVars, pc, localVars, ret, hist, analyzerVars,
                   jobVars>>

\* monitor.py 176-186: check_wallet has returned, its list is printed and
\* the loop goes on to the next wallet.
WalletDone(p) ==
    /\ cycle.at \in DOMAIN CycleWallets
    /\ pc[p] \in {"returned", "error"}
    /\ ForgetLocals(p)
    /\ cycle' = [cycle EXCEPT !.at = @ + 1]

\* monitor.py 188-197: the loops are through; check_all_wallets returns.
EndCycle ==
    /\ cycle.at = Len(CycleWallets) + 1
    /\ cycle' = [cycle EXCEPT !.at = 0, !.ended = "returned"]
    /\ UNCHANGED <<chainVars, storeVars, priceVars, pc, localVars, ret, hist, analyzerVars,
                   jobVars>>

\* Cycles of check_all_wallets over an upstream that stays as it is.
NextCycle ==
    \/ BeginCycle
    \/ \E p \in SeqPollers : PollWallet(p)
    \/ \E p \in SeqPollers : ReadCursorFails(p)
    \/ \E p \in SeqPollers : Fetch(p)
    \/ \E p \in SeqPollers : FetchPrice(p)
    \/ \E p \in SeqPollers : Ingest(p)
    \/ \E p \in SeqPollers : UpdateTracking(p)
    \/ \E p \in SeqPollers : Return(p)
    \/ \E p \in SeqPollers : WalletDone(p)
    \/ EndCycle

SpecCycle == InitConcurrent /\ [][NextCycle]_vars

\* ------------------------------------------------- the classifier's inputs
\* The addresses lists of a raw input or output: one address, a second
\* address beside the wallet's, and an address BlockCypher lists twice.
RawAddresses == {<<"w1">>, <<"x">>, <<"e1">>, <<"e2">>, <<"w1", "w1">>}
\* output_value / value of a raw input or output, in base units.
RawValues == {0, 30, 50}
RawInputs == [addresses : RawAddresses, output_value : RawValues]
RawOutputs == [addresses : RawAddresses, value : RawValues]

\* The raw transactions handed to _process_transaction: one or two inputs
\* and one output.
RawTransactions ==
    [hash         : {"t1"},
     block_height : {1},
     confirmed    : {TRUE},
     inputs       : {<<a>> : a \in RawInputs} \cup {<<a, b>> : a, b \in RawInputs},
     outputs      : {<<a>> : a \in RawOutputs}]

\* The wallets classified for: the first tracked wallet, and a tracked wallet
\* whose own address is in the exchange registry.
ClassifiedWallets ==
    {FirstWallet, [address |-> "e1", rank |-> 3, coin_type |-> "BTC"]}

\* check_wallet stands at its for loop over the one transaction its first
\* fetch for the wallet returned.
InitClassify ==
    /\ now = 0
    /\ analysis = None
    /\ cycle = NoCycle
    /\ AppStarted
    /\ broadcast = {}
    /\ block_of = [h \in Hashes |-> UnconfirmedHeight]
    /\ tip = 0
    /\ transactions = {}
    /\ wallet_tracking = {}
    /\ price_cache = [c \in Coins |-> None]
    /\ pc = [p \in Pollers |-> IF p \in SeqPollers THEN "loop" ELSE "idle"]
    /\ \E w \in ClassifiedWallets, tx \in RawTransactions :
         /\ w.address \in AllAddresses(tx)
         /\ wallet = [p \in Pollers |-> IF p \in SeqPollers THEN w ELSE FirstWallet]
         /\ batch = [p \in Pollers |-> IF p \in SeqPollers THEN <<tx>> ELSE <<>>]
    /\ last_block = [p \in Pollers |-> NoLastBlock]
    /\ idx = [p \in Pollers |-> IF p \in SeqPollers THEN 1 ELSE 0]
    /\ \E price \in {None} \cup {Some(x) : x \in Prices} :
         current_price = [p \in Pollers |-> IF p \in SeqPollers THEN price ELSE None]
    /\ new_txs = [p \in Pollers |-> <<>>]
    /\ ret = [p \in Pollers |-> <<>>]
    /\ hist = [p \in Pollers |->
                 IF p \in SeqPollers THEN [NoHist EXCEPT !.fetch_ok = TRUE] ELSE NoHist]
    /\ set_order \in SetOrders
    /\ detected = [k \in StoredKeys(transactions) |-> now]

NextClassify ==
    \/ \E p \in SeqPollers : Ingest(p)
    \/ \E p \in SeqPollers : UpdateTracking(p)
    \/ \E p \in SeqPollers : Return(p)
    \/ \E p \in SeqPollers : Finish(p)

SpecClassify == InitClassify /\ [][NextClassify]_vars

\* ------------------------------------------------------------ the analyzer
\* Rows of the transactions table as the analyzer reads them: with id and
\* detected_at (hours on the clock `now`), without the columns it never
\* looks at.

\* config.get_thresholds(): large_tx in coins, usd in dollars.
Thresholds == [BTC |-> [large_tx |-> 50 * UnitsPerCoin, usd |-> 1000000 * UnitsPerCoin]]

Abs(x) == IF x < 0 THEN -x ELSE x

\* r comes before q under ORDER BY detected_at DESC; rows detected in the
\* same second come out latest insert first.
Later(r, q) ==
    \/ r.detected_at > q.detected_at
    \/ r.detected_at = q.detected_at /\ r.id > q.id

RECURSIVE NewestRowsFirst(_)
NewestRowsFirst(S) ==
    IF S = {} THEN <<>>
    ELSE LET r == CHOOSE x \in S : \A q \in S \ {x} : Later(x, q)
         IN  <<r>> \o NewestRowsFirst(S \ {r})

\* get_recent_transactions; coin_type is None or Some(coin).
GetRecentTransactions(table, coin_type, hours, limit) ==
    LET since == now - hours
        rows  == {r \in table : /\ coin_type # None => r.coin_type \in coin_type
                                /\ r.detected_at > since}
        all   == NewestRowsFirst(rows)
    IN  SubSeq(all, 1, Min(limit, Len(all)))

RECURSIVE SumAmounts(_)
\* SUM(amount_native) over a set of rows.
SumAmounts(S) ==
    IF S = {} THEN 0
    ELSE LET r == CHOOSE x \in S : TRUE
         IN  r.amount_native + SumAmounts(S \ {r})

\* get_most_active_wallets: GROUP BY wallet_address ORDER BY tx_count DESC
\* LIMIT ?.  The query names no order for wallets with the same count:
\* SQLite builds the groups in the order of wallet_address and its sort on
\* tx_count DESC hands groups of the same count back last address first.
AddressOrder == <<"x", "w2", "w1", "e2", "e1">>

AddressPosition(a) == CHOOSE i \in DOMAIN AddressOrder : AddressOrder[i] = a

\* ORDER BY tx_count with ASC in place of DESC.
MoreActive_Ascending(x, y) ==
    \/ x.tx_count < y.tx_count
    \/ /\ x.tx_count = y.tx_count
       /\ AddressPosition(x.wallet_address) < AddressPosition(y.wallet_address)

\* The group x comes out before the group y.
MoreActive(x, y) ==
    \/ x.tx_count > y.tx_count
    \/ /\ x.tx_count = y.tx_count
       /\ AddressPosition(x.wallet_address) < AddressPosition(y.wallet_address)

RECURSIVE MostActiveFirst(_)
MostActiveFirst(G) ==
    IF G = {} THEN <<>>
    ELSE LET g == CHOOSE x \in G : \A y \in G \ {x} : MoreActive(x, y)
         IN  <<g>> \o MostActiveFirst(G \ {g})

GetMostActiveWallets(table, coin_type, hours, limit) ==
    LET since  == now - hours
        rows   == {r \in table : r.coin_type = coin_type /\ r.detected_at > since}
        of(a)  == {r \in rows : r.wallet_address = a}
        groups == {[wallet_address |-> a,
                    wallet_rank    |-> (CHOOSE r \in of(a) : TRUE).wallet_rank,
                    tx_count       |-> Cardinality(of(a)),
                    total_volume   |-> SumAmounts(of(a))] :
                   a \in {r.wallet_address : r \in rows}}
        all    == MostActiveFirst(groups)
    IN  SubSeq(all, 1, Min(limit, Len(all)))

\* is_large_transaction with > for >=.
IsLargeTransaction_Above(tx) ==
    \/ /\ tx.coin_type \in DOMAIN Thresholds
       /\ tx.amount_native > Thresholds[tx.coin_type].large_tx
    \/ /\ tx.coin_type \in DOMAIN Thresholds
       /\ tx.amount_usd # None
       /\ \E usd \in tx.amount_usd : usd # 0 /\ usd > Thresholds[tx.coin_type].usd

\* is_large_transaction
IsLargeTransaction(tx) ==
    \/ /\ tx.coin_type \in DOMAIN Thresholds
       /\ tx.amount_native >= Thresholds[tx.coin_type].large_tx
    \/ /\ tx.coin_type \in DOMAIN Thresholds
       /\ tx.amount_usd # None
       /\ \E usd \in tx.amount_usd : usd # 0 /\ usd >= Thresholds[tx.coin_type].usd

\* is_exchange_transfer
IsExchangeTransfer(tx) == tx.is_exchange_related

\* analyzer.py 53-56: recent_count, the wallet's transactions among those
\* get_recent_transactions returns for the coin.
RecentCount(table, wallet_address, coin_type, hours) ==
    LET recent_txs    == GetRecentTransactions(table, Some(coin_type), hours, RecentLimit)
        wallet_recent == SelectSeq(recent_txs, LAMBDA tx : tx.wallet_address = wallet_address)
    IN  Len(wallet_recent)

\* is_unusual_activity with the multiplier on the side of recent_count.
IsUnusualActivity_MultipliesRecent(table, wallet_address, coin_type, hours) ==
    LET recent_count  == RecentCount(table, wallet_address, coin_type, hours)
        history       == {r \in table : /\ r.wallet_address = wallet_address
                                        /\ r.coin_type = coin_type
                                        /\ r.detected_at > now - HistoryDays * HoursPerDay}
        total_count   == Cardinality(history)
        oldest        == CHOOSE r \in history : \A q \in history : r.detected_at <= q.detected_at
        age           == now - oldest.detected_at
    IN  IF recent_count = 0 THEN FALSE
        ELSE IF age = 0 THEN FALSE
        ELSE recent_count * age * UnusualActivityMultiplier > total_count * hours

\* is_unusual_activity comparing with the expected count itself, not with
\* three times it.
IsUnusualActivity_NoMultiplier(table, wallet_address, coin_type, hours) ==
    LET recent_count  == RecentCount(table, wallet_address, coin_type, hours)
        history       == {r \in table : /\ r.wallet_address = wallet_address
                                        /\ r.coin_type = coin_type
                                        /\ r.detected_at > now - HistoryDays * HoursPerDay}
        total_count   == Cardinality(history)
        oldest        == CHOOSE r \in history : \A q \in history : r.detected_at <= q.detected_at
        age           == now - oldest.detected_at
    IN  IF recent_count = 0 THEN FALSE
        ELSE IF age = 0 THEN FALSE
        ELSE recent_count * age > total_count * hours

\* is_unusual_activity.  With days = age / 24 for the age in hours of the
\* wallet's oldest row of the last 30 days, recent_count >
\* (total_count / days) * (hours / 24) * multiplier is recent_count * age >
\* total_count * hours * multiplier.  The rows of the last `hours` hours
\* are among those of the last 30 days, so the history is not empty when
\* recent_count is not 0.
IsUnusualActivity(table, wallet_address, coin_type, hours) ==
    LET recent_count  == RecentCount(table, wallet_address, coin_type, hours)
        history       == {r \in table : /\ r.wallet_address = wallet_address
                                        /\ r.coin_type = coin_type
                                        /\ r.detected_at > now - HistoryDays * HoursPerDay}
        total_count   == Cardinality(history)
        oldest        == CHOOSE r \in history : \A q \in history : r.detected_at <= q.detected_at
        age           == now - oldest.detected_at
    IN  IF recent_count = 0 THEN FALSE
        ELSE IF age = 0 THEN FALSE
        ELSE recent_count * age > total_count * hours * UnusualActivityMultiplier

\* analyzer.py 111-119: the pattern of an inflow and an outflow;
\* abs(net_flow) < max(inflow, outflow) * 0.1 in tenths.
PatternOf(inflow, outflow) ==
    LET net_flow == inflow - outflow
    IN  IF Abs(net_flow) * 10 < Max(inflow, outflow) THEN None
        ELSE IF net_flow > 0 THEN Some("accumulating") ELSE Some("distributing")

\* detect_accumulation_pattern
DetectAccumulationPattern(table, wallet_address, coin_type, days) ==
    LET rows    == {r \in table : /\ r.wallet_address = wallet_address
                                  /\ r.coin_type = coin_type
                                  /\ r.detected_at > now - days * HoursPerDay}
        inflow  == SumAmounts({r \in rows : ~r.is_outgoing})
        outflow == SumAmounts({r \in rows : r.is_outgoing})
    IN  PatternOf(inflow, outflow)

\* str.upper() of a pattern.
Upper(pattern) == IF pattern = "accumulating" THEN "ACCUMULATING" ELSE "DISTRIBUTING"

\* analyze_transaction with `score += 5` for a large transaction.
AnalyzeTransaction_LargeScoresFive(table, tx) ==
    LET is_large    == IsLargeTransaction(tx)
        is_exchange == IsExchangeTransfer(tx)
        is_unusual  == IsUnusualActivity(table, tx.wallet_address, tx.coin_type, UnusualHours)
        pattern     == DetectAccumulationPattern(table, tx.wallet_address, tx.coin_type,
                                                 PatternDays)
        score       == (IF is_large THEN 5 ELSE 0) + (IF is_exchange THEN 3 ELSE 0)
                       + (IF is_unusual THEN 2 ELSE 0) + (IF pattern # None THEN 1 ELSE 0)
    IN  [is_large           |-> is_large,
         is_exchange        |-> is_exchange,
         is_unusual         |-> is_unusual,
         pattern            |-> pattern,
         significance_score |-> Min(score, MaxScore),
         tags               |-> <<>>]

\* analyze_transaction that looks at the exchange factor before the size.
AnalyzeTransaction_ExchangeFirst(table, tx) ==
    LET is_large    == IsLargeTransaction(tx)
        is_exchange == IsExchangeTransfer(tx)
        is_unusual  == IsUnusualActivity(table, tx.wallet_address, tx.coin_type, UnusualHours)
        pattern     == DetectAccumulationPattern(table, tx.wallet_address, tx.coin_type,
                                                 PatternDays)
        score       == (IF is_large THEN 4 ELSE 0) + (IF is_exchange THEN 3 ELSE 0)
                       + (IF is_unusual THEN 2 ELSE 0) + (IF pattern # None THEN 1 ELSE 0)
        tags        == (IF is_exchange THEN <<"EXCHANGE">> ELSE <<>>)
                       \o (IF is_large THEN <<"LARGE">> ELSE <<>>)
                       \o (IF is_unusual THEN <<"UNUSUAL">> ELSE <<>>)
                       \o (IF pattern # None
                           THEN <<Upper(CHOOSE x \in pattern : TRUE)>> ELSE <<>>)
    IN  [is_large           |-> is_large,
         is_exchange        |-> is_exchange,
         is_unusual         |-> is_unusual,
         pattern            |-> pattern,
         significance_score |-> Min(score, MaxScore),
         tags               |-> tags]

\* analyze_transaction
AnalyzeTransaction(table, tx) ==
    LET is_large    == IsLargeTransaction(tx)
        is_exchange == IsExchangeTransfer(tx)
        is_unusual  == IsUnusualActivity(table, tx.wallet_address, tx.coin_type, UnusualHours)
        pattern     == DetectAccumulationPattern(table, tx.wallet_address, tx.coin_type,
                                                 PatternDays)
        score       == (IF is_large THEN 4 ELSE 0) + (IF is_exchange THEN 3 ELSE 0)
                       + (IF is_unusual THEN 2 ELSE 0) + (IF pattern # None THEN 1 ELSE 0)
        tags        == (IF is_large THEN <<"LARGE">> ELSE <<>>)
                       \o (IF is_exchange THEN <<"EXCHANGE">> ELSE <<>>)
                       \o (IF is_unusual THEN <<"UNUSUAL">> ELSE <<>>)
                       \o (IF pattern # None
                           THEN <<Upper(CHOOSE x \in pattern : TRUE)>> ELSE <<>>)
    IN  [is_large           |-> is_large,
         is_exchange        |-> is_exchange,
         is_unusual         |-> is_unusual,
         pattern            |-> pattern,
         significance_score |-> Min(score, MaxScore),
         tags               |-> tags]

RECURSIVE SortByScore(_, _)
\* list.sort(key=score, reverse=True): stable, so of the records with score
\* k those listed first stay first.  k runs from the highest score down.
SortByScore(s, k) ==
    IF k < 0 THEN <<>>
    ELSE SelectSeq(s, LAMBDA tx : tx.analysis.significance_score = k)
         \o SortByScore(s, k - 1)

\* get_significant_transactions
GetSignificantTransactions(table, coin_type, hours, min_score) ==
    LET txs         == GetRecentTransactions(table, coin_type, hours, SignificantLimit)
        analysed    == [i \in DOMAIN txs |->
                          [analysis |-> AnalyzeTransaction(table, txs[i])] @@ txs[i]]
        significant == SelectSeq(analysed,
                                 LAMBDA tx : tx.analysis.significance_score >= min_score)
    IN  SortByScore(significant, MaxScore)

\* sum(tx.get('amount_usd', 0) or 0 ...)
UsdOrZero(tx) == IF tx.amount_usd = None THEN 0 ELSE CHOOSE usd \in tx.amount_usd : TRUE

\* generate_summary_stats
GenerateSummaryStats(table, coin_type, hours) ==
    LET txs == GetRecentTransactions(table, Some(coin_type), hours, SummaryLimit)
        exchange_inflow ==
            SumSeq([i \in DOMAIN txs |->
                      IF txs[i].is_exchange_related /\ txs[i].is_outgoing
                      THEN txs[i].amount_native ELSE 0])
        exchange_outflow ==
            SumSeq([i \in DOMAIN txs |->
                      IF txs[i].is_exchange_related /\ ~txs[i].is_outgoing
                      THEN txs[i].amount_native ELSE 0])
    IN  IF txs = <<>>
        THEN [total_volume_native |-> 0,
              total_volume_usd    |-> 0,
              transaction_count   |-> 0,
              exchange_inflow     |-> 0,
              exchange_outflow    |-> 0,
              significant_count   |-> 0,
              most_active         |-> <<>>]
        ELSE [total_volume_native |-> SumSeq([i \in DOMAIN txs |-> txs[i].amount_native]),
              total_volume_usd    |-> SumSeq([i \in DOMAIN txs |-> UsdOrZero(txs[i])]),
              transaction_count   |-> Len(txs),
              exchange_inflow     |-> exchange_inflow,
              exchange_outflow    |-> exchange_outflow,
              exchange_net_flow   |-> exchange_inflow - exchange_outflow,
              significant_count   |->
                  Cardinality({i \in DOMAIN txs :
                                 IsLargeTransaction(txs[i]) \/ IsExchangeTransfer(txs[i])}),
              most_active         |-> GetMostActiveWallets(table, coin_type, hours,
                                                           MostActiveLimit)]

\* ------------------------------------------------- the analyzer's inputs
\* The records the poller has stored, oldest first: tx_hash of the i-th.
StoredHashes == <<"t1", "t2", "t3">>
\* When a record was detected: this very second, within the last day, the
\* last week, the last 30 days.
DetectedAt == {-200, -30, -12, 0}
\* amount_native and amount_usd of a record: neither large; large by its
\* dollar value; large by its amount.
StoredAmounts ==
    {[amount_native |-> 5 * UnitsPerCoin, amount_usd |-> None],
     [amount_native |-> 45 * UnitsPerCoin, amount_usd |-> Some(45 * UnitsPerCoin * 25000)],
     [amount_native |-> 50 * UnitsPerCoin, amount_usd |-> None]}

StoredChoices ==
    [wallet : Tracked, detected_at : DetectedAt, amounts : StoredAmounts,
     is_outgoing : BOOLEAN, is_exchange_related : BOOLEAN]

\* The row add_transaction wrote as the i-th.
StoredRow(i, c) ==
    [id                  |-> i,
     tx_hash             |-> StoredHashes[i],
     coin_type           |-> c.wallet.coin_type,
     wallet_address      |-> c.wallet.address,
     wallet_rank         |-> c.wallet.rank,
     amount_native       |-> c.amounts.amount_native,
     amount_usd          |-> c.amounts.amount_usd,
     is_outgoing         |-> c.is_outgoing,
     is_exchange_related |-> c.is_exchange_related,
     detected_at         |-> c.detected_at]

\* The store holds up to three records, detected in the order of their ids;
\* all but the newest belong to the first wallet and were detected before
\* this second.
InitAnalyzer ==
    /\ now = 0
    /\ broadcast = {}
    /\ block_of = [h \in Hashes |-> UnconfirmedHeight]
    /\ tip = 0
    /\ \E k \in 0..Len(StoredHashes) : \E c \in [1..k -> StoredChoices] :
         /\ \A i \in 1..k : i < k => /\ c[i].wallet = FirstWallet
                                      /\ c[i].detected_at < now
                                      /\ c[i].detected_at <= c[i + 1].detected_at
         /\ transactions = {StoredRow(i, c[i]) : i \in 1..k}
    /\ wallet_tracking = {}
    /\ price_cache = [c \in Coins |-> None]
    /\ pc = [p \in Pollers |-> "idle"]
    /\ wallet = [p \in Pollers |-> FirstWallet]
    /\ last_block = [p \in Pollers |-> NoLastBlock]
    /\ batch = [p \in Pollers |-> <<>>]
    /\ idx = [p \in Pollers |-> 0]
    /\ current_price = [p \in Pollers |-> None]
    /\ new_txs = [p \in Pollers |-> <<>>]
    /\ ret = [p \in Pollers |-> <<>>]
    /\ hist = [p \in Pollers |-> NoHist]
    /\ set_order = CHOOSE o \in SetOrders : TRUE
    /\ detected = DetectedColumn(transactions)
    /\ analysis = None
    /\ cycle = NoCycle
    /\ AppStarted

pollerVars == <<chainVars, storeVars, priceVars, pc, localVars, ret, hist, cycle, jobVars>>

\* analyze_transaction(tx) for a stored record.  The analyzer is called
\* from one thread: a call starts when the one before it has returned and
\* its result has been used.
Analyze(tx) ==
    /\ analysis = None
    /\ tx \in transactions
    /\ analysis' = Some([call  |-> "analyze_transaction",
                         tx    |-> tx,
                         value |-> AnalyzeTransaction(transactions, tx)])
    /\ UNCHANGED <<pollerVars, now>>

\* The windows asked for: the last day, the last two days.
QueryHours == {24, 48}
\* The coin_type and min_score asked for: the defaults' min_score with a
\* coin, the immediate alerts' with none.
SignificantCalls == {[coin_type |-> Some("BTC"), min_score |-> 4],
                     [coin_type |-> None, min_score |-> 8]}

\* get_significant_transactions(coin_type, hours, min_score)
GetSignificant(coin_type, hours, min_score) ==
    /\ analysis = None
    /\ analysis' = Some([call      |-> "get_significant_transactions",
                         coin_type |-> coin_type,
                         hours     |-> hours,
                         min_score |-> min_score,
                         value     |-> GetSignificantTransactions(transactions, coin_type,
                                                                  hours, min_score)])
    /\ UNCHANGED <<pollerVars, now>>

\* generate_summary_stats(coin_type, hours)
Summarize(coin_type, hours) ==
    /\ analysis = None
    /\ analysis' = Some([call      |-> "generate_summary_stats",
                         coin_type |-> coin_type,
                         hours     |-> hours,
                         value     |-> GenerateSummaryStats(transactions, coin_type, hours)])
    /\ UNCHANGED <<pollerVars, now>>

\* The caller is done with what the call returned.
Forget ==
    /\ analysis # None
    /\ analysis' = None
    /\ UNCHANGED <<pollerVars, now>>

NextAnalyzer ==
    \/ \E tx \in transactions : Analyze(tx)
    \/ \E c \in SignificantCalls, h \in QueryHours :
         GetSignificant(c.coin_type, h, c.min_score)
    \/ \E c \in Coins, h \in QueryHours : Summarize(c, h)
    \/ Forget

SpecAnalyzer == InitAnalyzer /\ [][NextAnalyzer]_vars

\* ------------------------------------------- is_large_transaction's inputs
\* coin_type of the dict handed in: a coin with thresholds and one without.
LargeCoins == {"BTC", "ETH"}
\* amount_native: small, just below, at and just above large_tx, far above.
LargeNatives ==
    {1, 5 * UnitsPerCoin, 50 * UnitsPerCoin - 1, 50 * UnitsPerCoin, 50 * UnitsPerCoin + 1,
     5000 * UnitsPerCoin}
\* amount_usd: missing, 0, just below, at and just above the usd threshold.
LargeDollars ==
    {None, Some(0), Some(1000000 * UnitsPerCoin - 1), Some(1000000 * UnitsPerCoin),
     Some(1000000 * UnitsPerCoin + 1)}

\* The table holds the one record is_large_transaction is called with.
InitLarge ==
    /\ now = 0
    /\ analysis = None
    /\ cycle = NoCycle
    /\ AppStarted
    /\ broadcast = {}
    /\ block_of = [h \in Hashes |-> UnconfirmedHeight]
    /\ tip = 0
    /\ \E c \in LargeCoins, n \in LargeNatives, d \in LargeDollars :
         transactions =
             {[StoredRow(1, [wallet |-> FirstWallet, detected_at |-> 0,
                             amounts |-> [amount_native |-> n, amount_usd |-> d],
                             is_outgoing |-> FALSE, is_exchange_related |-> FALSE])
                 EXCEPT !.coin_type = c]}
    /\ wallet_tracking = {}
    /\ price_cache = [c \in Coins |-> None]
    /\ pc = [p \in Pollers |-> "idle"]
    /\ wallet = [p \in Pollers |-> FirstWallet]
    /\ last_block = [p \in Pollers |-> NoLastBlock]
    /\ batch = [p \in Pollers |-> <<>>]
    /\ idx = [p \in Pollers |-> 0]
    /\ current_price = [p \in Pollers |-> None]
    /\ new_txs = [p \in Pollers |-> <<>>]
    /\ ret = [p \in Pollers |-> <<>>]
    /\ hist = [p \in Pollers |-> NoHist]
    /\ set_order = CHOOSE o \in SetOrders : TRUE
    /\ detected = DetectedColumn(transactions)

\* is_large_transaction(tx)
IsLarge(tx) ==
    /\ analysis = None
    /\ tx \in transactions
    /\ analysis' = Some([call  |-> "is_large_transaction",
                         tx    |-> tx,
                         value |-> IsLargeTransaction(tx)])
    /\ UNCHANGED <<pollerVars, now>>

NextLarge ==
    \/ \E tx \in transactions : IsLarge(tx)
    \/ Forget

SpecLarge == InitLarge /\ [][NextLarge]_vars

\* When a record of a wallet's history was detected: this very second, half
\* a day ago, two and a half days, three days, more than a week, more than
\* 30 days ago (rows a purge has not yet removed).
HistoryDetectedAt == {-800, -200, -72, -60, -12, 0}
\* amount_native and amount_usd of a record of the history: neither large;
\* large by its amount.
HistoryAmounts ==
    {[amount_native |-> 5 * UnitsPerCoin, amount_usd |-> None],
     [amount_native |-> 50 * UnitsPerCoin, amount_usd |-> None]}

HistoryChoices ==
    [wallet : {FirstWallet}, detected_at : HistoryDetectedAt, amounts : HistoryAmounts,
     is_outgoing : BOOLEAN, is_exchange_related : BOOLEAN]

\* The store holds up to three records of the first wallet, detected in the
\* order of their ids.
InitHistory ==
    /\ now = 0
    /\ analysis = None
    /\ cycle = NoCycle
    /\ AppStarted
    /\ broadcast = {}
    /\ block_of = [h \in Hashes |-> UnconfirmedHeight]
    /\ tip = 0
    /\ \E k \in 0..Len(StoredHashes) : \E c \in [1..k -> HistoryChoices] :
         /\ \A i \in 1..k : i < k => c[i].detected_at <= c[i + 1].detected_at
         /\ transactions = {StoredRow(i, c[i]) : i \in 1..k}
    /\ wallet_tracking = {}
    /\ price_cache = [c \in Coins |-> None]
    /\ pc = [p \in Pollers |-> "idle"]
    /\ wallet = [p \in Pollers |-> FirstWallet]
    /\ last_block = [p \in Pollers |-> NoLastBlock]
    /\ batch = [p \in Pollers |-> <<>>]
    /\ idx = [p \in Pollers |-> 0]
    /\ current_price = [p \in Pollers |-> None]
    /\ new_txs = [p \in Pollers |-> <<>>]
    /\ ret = [p \in Pollers |-> <<>>]
    /\ hist = [p \in Pollers |-> NoHist]
    /\ set_order = CHOOSE o \in SetOrders : TRUE
    /\ detected = DetectedColumn(transactions)

\* The stored records of a wallet analysed one after the other.
NextHistory ==
    \/ \E tx \in transactions : Analyze(tx)
    \/ Forget

SpecHistory == InitHistory /\ [][NextHistory]_vars

\* ------------------------------------------------------------ the daily digest
\* The clock (CURRENT_TIMESTAMP of the database and datetime.now() of the
\* process alike: the process runs in UTC) moves on by h hours.  A check
\* lasts seconds: the hours pass between checks.
Elapse(h, until) ==
    /\ now + h <= until
    /\ \A p \in Pollers : pc[p] = "idle"
    /\ now' = now + h
    /\ UNCHANGED <<pollerVars, analysis>>

\* datetime.now().strftime('%Y-%m-%d'): the calendar day of the clock.
Today == now \div HoursPerDay

\* main.py 93 of a job that sends whatever was sent before.
DigestDue_Always(last, today) == TRUE

\* main.py 93: the job goes on unless the last digest was sent today.
DigestDue(last, today) == last # Some(today)

\* cleanup_old_transactions(days): the rows DELETE ... WHERE detected_at <
\* cutoff leaves.
CleanupOldTransactions(table, col, days) ==
    {r \in table : ~(col[TxKey(r)] < now - days * HoursPerDay)}

\* main.py 26-55: the application is started (again, or a second time for
\* --mode digest).
StartApp ==
    /\ Len(digest_jobs) < MaxDigestJobs
    /\ last_digest_date' = None
    /\ digest_jobs' = Append(digest_jobs, [date |-> Today, outcome |-> "started"])
    /\ UNCHANGED <<chainVars, storeVars, priceVars, pc, localVars, ret, hist, cycle,
                   analyzerVars, detected, purged>>

\* send_daily_digest_job.  raised: generate_summary_stats or
\* send_daily_digest raises and line 119 catches it; sent / failed:
\* send_daily_digest returns True / False, and cleanup_old_transactions
\* runs, which deletes or raises (cleaned false).
SendDailyDigestJob ==
    /\ Len(digest_jobs) < MaxDigestJobs
    /\ IF ~DigestDue(last_digest_date, Today)
       THEN /\ digest_jobs' = Append(digest_jobs, [date |-> Today, outcome |-> "skipped"])
            /\ UNCHANGED <<transactions, detected, purged, last_digest_date>>
       ELSE \E outcome \in {"raised", "sent", "failed"}, cleaned \in BOOLEAN :
              LET kept == IF outcome # "raised" /\ cleaned
                          THEN CleanupOldTransactions(transactions, detected, RetentionDays)
                          ELSE transactions
              IN  /\ digest_jobs' = Append(digest_jobs, [date |-> Today, outcome |-> outcome])
                  /\ last_digest_date' = IF outcome = "sent" THEN Some(Today)
                                         ELSE last_digest_date
                  /\ transactions' = kept
                  /\ detected' = [k \in StoredKeys(kept) |-> detected[k]]
                  /\ purged' = purged \cup (StoredKeys(transactions) \ StoredKeys(kept))
    /\ UNCHANGED <<chainVars, wallet_tracking, priceVars, pc, localVars, ret, hist, cycle,
                   analyzerVars>>

\* The checks of the first wallet over an upstream that stays as it is,
\* digest jobs with their purge between and during them, and months passing.
NextPurge ==
    \/ \E p \in SeqPollers : StartCheck(p, FirstWallet)
    \/ \E p \in SeqPollers : Fetch(p)
    \/ \E p \in SeqPollers : FetchPrice(p)
    \/ \E p \in SeqPollers : Ingest(p)
    \/ \E p \in SeqPollers : UpdateTracking(p)
    \/ \E p \in SeqPollers : Return(p)
    \/ \E p \in SeqPollers : Finish(p)
    \/ SendDailyDigestJob
    \/ Elapse((RetentionDays + 1) * HoursPerDay, MaxClock)

SpecPurge == InitConcurrent /\ [][NextPurge]_vars

\* Digest jobs and starts of the application as the hours pass, over a
\* store that no check writes to.
NextDigest ==
    \/ SendDailyDigestJob
    \/ StartApp
    \/ Elapse(HoursPerDay \div 2, MaxDigestClock)

SpecDigest == InitConcurrent /\ [][NextDigest]_vars

\* ================================================================== claims
\* The stored cursor of a wallet.
Cursor(w) == GetWalletLastBlock(wallet_tracking, w.address, w.coin_type)

\* The rows of a wallet in wallet_tracking.
RowsOf(w) == TrackingRows(wallet_tracking, w.address, w.coin_type)

\* The wallet gets a record from the raw transaction.
Classifiable(tx, w) == AmountNative(tx, w.address) # 0

\* The hashes of the wallet's transactions on the network.
Upstream(w) == {h \in broadcast : w.address \in TxAddresses(h)}

\* The table holds a record of the transaction for the wallet.
Stored(h, w) == <<h, w.address>> \in StoredKeys(transactions)

\* C1: for every wallet and every step of every run (checks that succeed,
\* fail, meet duplicates, crash, or get a batch in any block order), the
\* stored last_block_height after the step is at least the one before it.
C1_CursorNeverDecreases ==
    [][\A w \in Tracked :
         GetWalletLastBlock(wallet_tracking', w.address, w.coin_type) >= Cursor(w)]_vars

\* C1 witness: update_wallet_tracking has just been called with a block
\* height below the stored cursor (the batch listed a newer block first).
C1_Witness ==
    \E p \in Pollers :
        /\ pc[p] = "loop"
        /\ idx[p] >= 2
        /\ Classifiable(batch[p][idx[p] - 1], wallet[p])
        /\ batch[p][idx[p] - 1].block_height > last_block[p]
        /\ batch[p][idx[p] - 1].block_height < Cursor(wallet[p])

\* C2: a check of a wallet that directly follows a check of the same wallet
\* which fetched and met no database error, with the chain unchanged in
\* between, returns the empty list, inserts no record and leaves the
\* wallet's tracking row (height and transaction_count) as it was.
C2_RecheckIsIdempotent ==
    \A p \in Pollers :
        (pc[p] = "returned" /\ hist[p].rerun) =>
            /\ ret[p] = <<>>
            /\ hist[p].inserted = {}
            /\ RowsOf(wallet[p]) = hist[p].start_rows

\* C3: the table never holds two rows with the same (tx_hash,
\* wallet_address); add_transaction of a stored pair returns false and leaves
\* the table as it is; add_transaction of a pair that is not stored, also when
\* the tx_hash is stored for another wallet, adds the row unless the database
\* fails.
UniqueKeys ==
    \A r1, r2 \in transactions : TxKey(r1) = TxKey(r2) => r1 = r2

AddStep(p) ==
    LET rec == new_txs'[p][Len(new_txs'[p])]
    IN  (pc[p] = "loop" /\ new_txs'[p] # new_txs[p]) =>
            IF TxKey(rec) \in StoredKeys(transactions)
            THEN /\ transactions' = transactions
                 /\ hist'[p].inserted = hist[p].inserted
            ELSE ~hist'[p].db_error =>
                     /\ transactions' = transactions \cup {rec}
                     /\ TxKey(rec) \in hist'[p].inserted

C3_OneRecordPerKey ==
    /\ []UniqueKeys
    /\ [][\A p \in Pollers : AddStep(p)]_vars

\* C3 witness: one tx_hash is stored for both wallets, and the running call
\* has had an insert refused as a duplicate.
C3_Witness ==
    /\ \E r1, r2 \in transactions :
           r1.tx_hash = r2.tx_hash /\ r1.wallet_address # r2.wallet_address
    /\ \E p \in Pollers :
           /\ ~hist[p].db_error
           /\ \E i \in DOMAIN new_txs[p] : TxKey(new_txs[p][i]) \notin hist[p].inserted

\* C4: every record in the list check_wallet returns was newly inserted by
\* this call.
C4_ReturnsOnlyNewlyInserted ==
    \A p \in Pollers :
        pc[p] = "returned" =>
            \A i \in DOMAIN ret[p] : TxKey(ret[p][i]) \in hist[p].inserted

\* C5: a check whose fetch failed returns the empty list, has inserted no
\* record and leaves the wallet's tracking row (height and
\* transaction_count) as it was when the check began.
C5_FailedFetchChangesNothing ==
    \A p \in Pollers :
        (pc[p] \in {"returned", "error"} /\ ~hist[p].fetch_ok) =>
            /\ pc[p] = "returned"
            /\ ret[p] = <<>>
            /\ new_txs[p] = <<>>
            /\ hist[p].inserted = {}
            /\ RowsOf(wallet[p]) = hist[p].start_rows

\* C5 witness: the fetch failed while the network had transactions the check
\* would have fetched.
C5_Witness ==
    \E p \in Pollers :
        /\ pc[p] = "returned"
        /\ ~hist[p].fetch_ok
        /\ FetchedTransactions(wallet[p].address, wallet[p].coin_type,
                               last_block[p], TRUE) # <<>>
        /\ transactions # {}

\* C6: whenever a step raises a wallet's cursor to H, the table then holds a
\* record of that wallet with block_height H.
C6_AdvanceHasRecord ==
    [][\A w \in Tracked :
         LET after == GetWalletLastBlock(wallet_tracking', w.address, w.coin_type)
         IN  after > Cursor(w) =>
                 \E r \in transactions' :
                     r.wallet_address = w.address /\ r.block_height = after]_vars

\* C7: after a crash inside a check (without a database error), every
\* classifiable transaction of the fetched batch that is in a block at or
\* below the wallet's stored cursor is in the table.
C7_CrashLeavesNoGap ==
    \A p \in Pollers :
        (pc[p] = "crashed" /\ ~hist[p].db_error) =>
            \A i \in DOMAIN batch[p] :
                (/\ Classifiable(batch[p][i], wallet[p])
                 /\ batch[p][i].confirmed
                 /\ batch[p][i].block_height <= Cursor(wallet[p]))
                => Stored(batch[p][i].hash, wallet[p])

\* C8: when a check that began with cursor h > 0 has fetched and returned
\* without a database error, every classifiable transaction of the wallet on
\* the network with block height above h is in the table.
C8_BacklogIngested ==
    \A p \in Pollers :
        (pc[p] = "returned" /\ hist[p].fetch_ok /\ ~hist[p].db_error /\ last_block[p] > 0) =>
            \A h \in Upstream(wallet[p]) :
                (/\ block_of[h] > last_block[p]
                 /\ AmountNative(TxBody[h], wallet[p].address) # 0)
                => Stored(h, wallet[p])

\* C9: a check that began with cursor 0 fetches at most one transaction, no
\* transaction of the wallet on the network is newer than it, and the check
\* inserts at most one record, of that transaction.
C9_BootstrapTakesLatestOnly ==
    \A p \in Pollers :
        (pc[p] \in (Running \cup Ended) \ {"fetch"} /\ last_block[p] = 0) =>
            /\ Len(batch[p]) <= 1
            /\ Cardinality(hist[p].inserted) <= 1
            /\ \A k \in hist[p].inserted : batch[p] # <<>> /\ k[1] = batch[p][1].hash
            /\ batch[p] # <<>> =>
                   \A u \in Upstream(wallet[p]) : ~Newer(u, batch[p][1].hash)

\* C9 witness: a first check has inserted one record while the network had
\* two classifiable transactions of the wallet.
C9_Witness ==
    \E p \in Pollers :
        /\ pc[p] = "returned"
        /\ last_block[p] = 0
        /\ Cardinality(hist[p].inserted) = 1
        /\ Cardinality({h \in Upstream(wallet[p]) :
                          AmountNative(TxBody[h], wallet[p].address) # 0}) >= 2

\* C10 as stated: after a failed price lookup every record of the batch has
\* amount_usd null.
C10_FailedPriceGivesNullUsd ==
    \A p \in Pollers :
        hist[p].price_failed =>
            \A i \in DOMAIN new_txs[p] : new_txs[p][i].amount_usd = None

\* C10 amended: a failed price lookup does not abort the check.  When the
\* check has returned without a database error, every classifiable
\* transaction of the batch is in the table and the cursor is at or above the
\* block height of each; every record of the batch has amount_usd null if no
\* price is cached for the coin, and amount_native times the cached price
\* otherwise.
C10_FailedPriceKeepsPolling ==
    \A p \in Pollers :
        hist[p].price_failed =>
            /\ pc[p] = "error" => hist[p].db_error
            /\ \A i \in DOMAIN new_txs[p] :
                   new_txs[p][i].amount_usd =
                       AmountUsd(new_txs[p][i].amount_native,
                                 price_cache[wallet[p].coin_type])
            /\ (pc[p] = "returned" /\ ~hist[p].db_error) =>
                   \A i \in DOMAIN batch[p] :
                       Classifiable(batch[p][i], wallet[p]) =>
                           /\ Stored(batch[p][i].hash, wallet[p])
                           /\ \E j \in DOMAIN new_txs[p] :
                                  new_txs[p][j].tx_hash = batch[p][i].hash
                           /\ Cursor(wallet[p]) >= batch[p][i].block_height

\* C10 witness: a check whose price lookup failed with nothing cached has
\* returned, having inserted a record without amount_usd and advanced the
\* cursor.
C10_Witness ==
    \E p \in Pollers :
        /\ pc[p] = "returned"
        /\ hist[p].price_failed
        /\ hist[p].inserted # {}
        /\ RowsOf(wallet[p]) # hist[p].start_rows
        /\ \A i \in DOMAIN new_txs[p] : new_txs[p][i].amount_usd = None

\* The raw transaction of the running call's batch that a record came from.
RawOf(p, rec) == CHOOSE tx \in Range(batch[p]) : tx.hash = rec.tx_hash

\* C11 as stated: every record has is_outgoing true exactly when the wallet
\* is in an input of the raw transaction; its amount_native is then the sum
\* of output_value over the inputs that list the wallet, each input counted
\* once, and otherwise the sum of value over the outputs that list the wallet.
C11_DirectionAndAmount ==
    \A p \in Pollers : \A i \in DOMAIN new_txs[p] :
        LET rec   == new_txs[p][i]
            tx    == RawOf(p, rec)
            w     == wallet[p].address
            sends == {k \in DOMAIN tx.inputs : w \in Range(tx.inputs[k].addresses)}
            gets  == {k \in DOMAIN tx.outputs : w \in Range(tx.outputs[k].addresses)}
        IN  IF sends # {}
            THEN /\ rec.is_outgoing
                 /\ rec.amount_native =
                        SumSeq([k \in DOMAIN tx.inputs |->
                                  IF k \in sends THEN tx.inputs[k].output_value ELSE 0])
            ELSE /\ ~rec.is_outgoing
                 /\ rec.amount_native =
                        SumSeq([k \in DOMAIN tx.outputs |->
                                  IF k \in gets THEN tx.outputs[k].value ELSE 0])

\* C12: no stored, collected or returned record has amount_native zero; the
\* loop step over a transaction whose amount for the wallet is zero leaves
\* the table, the tracking rows and new_txs as they are and moves on to the
\* next transaction without calling update_wallet_tracking.
NoZeroAmount ==
    /\ \A r \in transactions : r.amount_native # 0
    /\ \A p \in Pollers :
         /\ \A i \in DOMAIN new_txs[p] : new_txs[p][i].amount_native # 0
         /\ \A i \in DOMAIN ret[p] : ret[p][i].amount_native # 0

SkipStep(p) ==
    (/\ pc[p] = "loop"
     /\ idx[p] <= Len(batch[p])
     /\ ~Classifiable(batch[p][idx[p]], wallet[p]))
    => /\ transactions' = transactions
       /\ wallet_tracking' = wallet_tracking
       /\ new_txs'[p] = new_txs[p]
       /\ pc'[p] \in {"loop", "crashed"}
       /\ pc'[p] = "loop" => idx'[p] = idx[p] + 1

C12_ZeroAmountDiscarded ==
    /\ []NoZeroAmount
    /\ [][\A p \in Pollers : SkipStep(p)]_vars

\* C12 witness: a check has returned after its loop went over a transaction
\* with amount zero for the wallet in a block above the cursor; the
\* transaction is not stored and the cursor is still below its block.
C12_Witness ==
    \E p \in Pollers :
        /\ pc[p] = "returned"
        /\ \E i \in DOMAIN batch[p] :
             /\ ~Classifiable(batch[p][i], wallet[p])
             /\ batch[p][i].block_height > Cursor(wallet[p])
             /\ ~Stored(batch[p][i].hash, wallet[p])

\* C13 as stated: a classification of a raw transaction for a wallet gives
\* the exchange_name the stored record of that transaction and wallet got
\* from an earlier classification.
C13_ExchangeNameRepeats ==
    \A p \in Pollers : \A i \in DOMAIN new_txs[p] :
        \A r \in transactions :
            TxKey(r) = TxKey(new_txs[p][i]) =>
                r.exchange_name = new_txs[p][i].exchange_name

\* The addresses of a raw transaction other than a, registered for the coin.
RegisteredOthers(tx, a, coin_type) ==
    {b \in (UNION {Range(tx.inputs[k].addresses) : k \in DOMAIN tx.inputs}
            \cup UNION {Range(tx.outputs[k].addresses) : k \in DOMAIN tx.outputs}) \ {a} :
        coin_type \in DOMAIN Exchanges /\ b \in DOMAIN Exchanges[coin_type]}

\* C14: every record has is_exchange_related true exactly when an address of
\* the raw transaction other than the wallet's own is registered for the
\* record's coin, and exchange_name non-null exactly then, being the
\* registered name of such an address.
C14_ExchangeTagging ==
    \A p \in Pollers : \A i \in DOMAIN new_txs[p] :
        LET rec  == new_txs[p][i]
            hits == RegisteredOthers(RawOf(p, rec), rec.wallet_address, rec.coin_type)
        IN  /\ rec.is_exchange_related <=> hits # {}
            /\ rec.exchange_name # None <=> rec.is_exchange_related
            /\ rec.is_exchange_related =>
                   \E b \in hits : rec.exchange_name = Some(Exchanges[rec.coin_type][b])

\* C14 witness: a record classified for a wallet whose own address is
\* registered has been returned; it is named after the other registered
\* address of the transaction.
C14_Witness ==
    \E p \in Pollers : \E i \in DOMAIN ret[p] :
        /\ pc[p] = "returned"
        /\ IsExchangeAddress(ret[p][i].wallet_address, ret[p][i].coin_type)
        /\ ret[p][i].is_exchange_related
        /\ ret[p][i].exchange_name = Some("Kraken")

\* What the last analyzer call returned, if it was a call of fn.
Returned(fn) == {a.value : a \in {x \in analysis : x.call = fn}}

\* The rows of a wallet detected within the last `hours` hours.
WalletWindow(wallet_address, coin_type, hours) ==
    {r \in transactions : /\ r.wallet_address = wallet_address
                          /\ r.coin_type = coin_type
                          /\ r.detected_at > now - hours}

\* C15: every analysis analyze_transaction returns has a score from 0 to 10
\* that is 4 if large, plus 3 if exchange, plus 2 if unusual, plus 1 if a
\* pattern is named, and 10 if that sum is above 10.
C15_ScoreIsCappedSum ==
    \A a \in Returned("analyze_transaction") :
        LET sum == (IF a.is_large THEN 4 ELSE 0) + (IF a.is_exchange THEN 3 ELSE 0)
                   + (IF a.is_unusual THEN 2 ELSE 0) + (IF a.pattern # None THEN 1 ELSE 0)
        IN  /\ a.significance_score >= 0
            /\ a.significance_score <= 10
            /\ a.significance_score = IF sum > 10 THEN 10 ELSE sum

\* C15 witness: an analysis with all four factors set, scored 10.
C15_Witness ==
    \E a \in Returned("analyze_transaction") :
        /\ a.is_large /\ a.is_exchange /\ a.is_unusual /\ a.pattern # None
        /\ a.significance_score = 10

C17_PatternOnlyAboveFloor ==
    /\ PatternOf(100, 80) # None
    /\ PatternOf(100, 91) = None
    /\ \A x \in analysis :
         x.call = "analyze_transaction" =>
             LET rows    == WalletWindow(x.tx.wallet_address, x.tx.coin_type, 7 * 24)
                 inflow  == SumAmounts({r \in rows : ~r.is_outgoing})
                 outflow == SumAmounts({r \in rows : r.is_outgoing})
             IN  x.value.pattern # None =>
                     Abs(inflow - outflow) * 10 > Max(inflow, outflow)

\* The rows get_significant_transactions is asked about: of the coin, if one
\* is given, detected within the last `hours` hours.
SignificantWindow(x) ==
    {r \in transactions : /\ x.coin_type # None => r.coin_type \in x.coin_type
                          /\ r.detected_at > now - x.hours}

\* C18 as stated: get_significant_transactions returns exactly the records
\* of the window whose score is at least min_score, each with its analysis,
\* ordered by score, highest first, and records of equal score most recent
\* first.
C18_SignificantOfTheWindow ==
    \A x \in analysis :
        x.call = "get_significant_transactions" =>
            LET v == x.value
            IN  /\ {v[i].id : i \in DOMAIN v} =
                       {r.id : r \in {q \in SignificantWindow(x) :
                            AnalyzeTransaction(transactions, q).significance_score
                                >= x.min_score}}
                /\ \A i \in DOMAIN v :
                       /\ \E r \in SignificantWindow(x) :
                              r.id = v[i].id /\ v[i].analysis = AnalyzeTransaction(transactions, r)
                /\ \A i, j \in DOMAIN v :
                       i < j =>
                           /\ v[i].id # v[j].id
                           /\ v[i].analysis.significance_score
                                  >= v[j].analysis.significance_score
                           /\ v[i].analysis.significance_score
                                  = v[j].analysis.significance_score => Later(v[i], v[j])

\* The fields of a summary.
SummaryFields ==
    {"total_volume_native", "total_volume_usd", "transaction_count", "exchange_inflow",
     "exchange_outflow", "exchange_net_flow", "significant_count", "most_active"}

\* The rows generate_summary_stats is asked about.
SummaryWindow(x) ==
    {r \in transactions : r.coin_type = x.coin_type /\ r.detected_at > now - x.hours}

\* C19 as stated: the summary of a window without records has every field
\* of a summary, each zero or empty.
C19_EmptySummaryHasEveryField ==
    \A x \in analysis :
        (x.call = "generate_summary_stats" /\ SummaryWindow(x) = {}) =>
            /\ DOMAIN x.value = SummaryFields
            /\ \A f \in DOMAIN x.value :
                   x.value[f] = IF f = "most_active" THEN <<>> ELSE 0

\* C20 as stated: the summary of a window with records has exchange_inflow
\* the sum of amount_native over the window's exchange-related outgoing
\* records, exchange_outflow the sum over its exchange-related incoming
\* records, exchange_net_flow their difference, and inflow plus outflow at
\* most total_volume_native.
C20_ExchangeFlows ==
    \A x \in analysis :
        (x.call = "generate_summary_stats" /\ SummaryWindow(x) # {}) =>
            LET rows == SummaryWindow(x)
            IN  /\ x.value.exchange_inflow =
                       SumAmounts({r \in rows : r.is_exchange_related /\ r.is_outgoing})
                /\ x.value.exchange_outflow =
                       SumAmounts({r \in rows : r.is_exchange_related /\ ~r.is_outgoing})
                /\ x.value.exchange_net_flow =
                       x.value.exchange_inflow - x.value.exchange_outflow
                /\ x.value.exchange_inflow + x.value.exchange_outflow
                       <= x.value.total_volume_native

\* The number of rows of a wallet in the window of a summary.
WindowCount(x, a) == Cardinality({r \in SummaryWindow(x) : r.wallet_address = a})

C22_AppendOnly ==
    [][\A r \in transactions : r \in transactions']_vars

\* C22 witness: a transaction stored while in the mempool, without a
\* price, has been ingested again from its block and with a price; the
\* stored row still has block_height -1, confirmed false and no amount_usd.
C22_Witness ==
    \E p \in Pollers : \E i \in DOMAIN new_txs[p] : \E r \in transactions :
        /\ pc[p] = "returned"
        /\ ~hist[p].db_error
        /\ TxKey(r) = TxKey(new_txs[p][i])
        /\ new_txs[p][i].confirmed /\ ~r.confirmed
        /\ new_txs[p][i].block_height > 0 /\ r.block_height = UnconfirmedHeight
        /\ new_txs[p][i].amount_usd # None /\ r.amount_usd = None

\* Two calls for the first wallet that read the same cursor and fetched the
\* same list have both returned, neither with a failed fetch or a database
\* error.
BothReturned ==
    /\ \A p \in Pollers : /\ pc[p] = "returned"
                          /\ wallet[p] = FirstWallet
                          /\ hist[p].fetch_ok
                          /\ ~hist[p].db_error
    /\ \A p, q \in Pollers : batch[p] = batch[q] /\ last_block[p] = last_block[q]

\* The block heights for which a call on its own calls update_wallet_tracking.
AdvancingHeights(p) ==
    {batch[p][i].block_height : i \in {k \in DOMAIN batch[p] :
        /\ Classifiable(batch[p][k], wallet[p])
        /\ batch[p][k].block_height > last_block[p]}}

\* The cursor a call on its own leaves.
SequentialHeight(p) ==
    IF AdvancingHeights(p) = {} THEN last_block[p]
    ELSE CHOOSE h \in AdvancingHeights(p) : \A k \in AdvancingHeights(p) : h >= k

C24_IncrementOnlyAboveCursor ==
    [][\A p \in Pollers :
         (pc[p] = "update" /\ wallet_tracking' # wallet_tracking) =>
             batch[p][idx[p]].block_height > Cursor(wallet[p])]_vars

\* transaction_count of a wallet's tracking row, 0 without a row.
CountOf(rows) == IF rows = {} THEN 0 ELSE (CHOOSE r \in rows : TRUE).transaction_count

\* C25 as stated: when two overlapping checks of one wallet that read the
\* same cursor and fetched the same transactions have returned,
\* transaction_count has gone up by at most one for each fetched
\* transaction that gives a record above that cursor.
C25_CountedOncePerTransaction ==
    BothReturned =>
        \A p \in Pollers :
            CountOf(RowsOf(wallet[p])) - CountOf(hist[p].start_rows)
                <= Cardinality({i \in DOMAIN batch[p] :
                                  /\ Classifiable(batch[p][i], wallet[p])
                                  /\ batch[p][i].block_height > last_block[p]})

\* The transaction is in what the upstream answers to a fetch from the
\* wallet's stored cursor, confirmed, in a block above that cursor, and
\* gives a record for the wallet.
Wanted(h, w) ==
    /\ h \in Range(ApiTxs(w.address, IF Cursor(w) = 0 THEN BootstrapLimit ELSE ApiMaxLimit))
    /\ block_of[h] # UnconfirmedHeight
    /\ block_of[h] > Cursor(w)
    /\ AmountNative(TxBody[h], w.address) # 0

\* A check of the wallet has returned from a failed fetch.
FetchFailed(w) ==
    \E p \in Pollers : pc[p] = "returned" /\ wallet[p] = w /\ ~hist[p].fetch_ok

C27_CyclePollsEveryWallet ==
    /\ cycle.at > 0 =>
          \E n \in {cycle.at - 1, cycle.at} :
              n <= Len(CycleWallets) /\ cycle.polled = SubSeq(CycleWallets, 1, n)
    /\ cycle.ended # "no" => cycle.ended = "returned"
    /\ (cycle.at = 0 /\ cycle.ended # "no") => cycle.polled = CycleWallets

\* C28 as stated: the recent_count behind is_unusual of an analysis is the
\* number of the wallet's records detected in the last 24 hours, and the
\* same as in a table without the records of other wallets.
C28_RecentCountOfTheWallet ==
    \A x \in analysis :
        x.call = "analyze_transaction" =>
            LET w == x.tx.wallet_address
                c == x.tx.coin_type
            IN  /\ RecentCount(transactions, w, c, UnusualHours)
                       = RecentCount({r \in transactions : r.wallet_address = w}, w, c,
                                     UnusualHours)
                /\ RecentCount(transactions, w, c, UnusualHours)
                       = Cardinality(WalletWindow(w, c, UnusualHours))

\* C29: is_large_transaction returns true exactly when the coin has
\* thresholds and amount_native is at least its large_tx or amount_usd is
\* there and at least its usd; a record without amount_usd is judged by
\* amount_native alone, and a record of a coin without thresholds is not
\* large.
C29_LargeByEitherThreshold ==
    \A x \in analysis :
        x.call = "is_large_transaction" =>
            LET configured == x.tx.coin_type \in DOMAIN Thresholds
                by_native  == x.tx.amount_native >= Thresholds[x.tx.coin_type].large_tx
                by_usd     == \E usd \in x.tx.amount_usd :
                                  usd >= Thresholds[x.tx.coin_type].usd
            IN  /\ ~configured => ~x.value
                /\ configured => (x.value <=> (by_native \/ by_usd))
                /\ (configured /\ x.tx.amount_usd = None) => (x.value <=> by_native)

\* C29 witness: a record below large_tx whose amount_usd is exactly the usd
\* threshold was found large.
C29_Witness ==
    \E x \in analysis :
        /\ x.call = "is_large_transaction"
        /\ x.value
        /\ x.tx.amount_native < Thresholds[x.tx.coin_type].large_tx
        /\ x.tx.amount_usd = Some(Thresholds[x.tx.coin_type].usd)

\* The place of a tag in the order the factors are looked at.
TagPlace(tag) ==
    CASE tag = "LARGE" -> 1
      [] tag = "EXCHANGE" -> 2
      [] tag = "UNUSUAL" -> 3
      [] tag \in {"ACCUMULATING", "DISTRIBUTING"} -> 4
      [] OTHER -> 0

\* C30: the tags of every analysis are among LARGE, EXCHANGE, UNUSUAL,
\* ACCUMULATING and DISTRIBUTING, each at most once and in that order (one
\* pattern tag at most, last); LARGE is there exactly when is_large is set,
\* EXCHANGE when is_exchange, UNUSUAL when is_unusual, ACCUMULATING when the
\* pattern is accumulating and DISTRIBUTING when it is distributing.
C30_TagsFollowFactors ==
    \A a \in Returned("analyze_transaction") :
        LET has(tag) == \E i \in DOMAIN a.tags : a.tags[i] = tag
        IN  /\ \A i \in DOMAIN a.tags : TagPlace(a.tags[i]) > 0
            /\ \A i, j \in DOMAIN a.tags :
                   i < j => TagPlace(a.tags[i]) < TagPlace(a.tags[j])
            /\ has("LARGE") <=> a.is_large
            /\ has("EXCHANGE") <=> a.is_exchange
            /\ has("UNUSUAL") <=> a.is_unusual
            /\ has("ACCUMULATING") <=> a.pattern = Some("accumulating")
            /\ has("DISTRIBUTING") <=> a.pattern = Some("distributing")

\* C30 witness: an analysis with all four tags, and the pattern tag last.
C30_Witness ==
    \E a \in Returned("analyze_transaction") :
        a.tags = <<"LARGE", "EXCHANGE", "UNUSUAL", "DISTRIBUTING">>

\* C31 as stated: an analysis names the pattern accumulating only when the
\* inflow of the wallet's last 7 days is above its outflow, and distributing
\* only when the outflow is above the inflow.
C31_PatternFollowsNetFlow ==
    \A x \in analysis :
        x.call = "analyze_transaction" =>
            LET rows    == WalletWindow(x.tx.wallet_address, x.tx.coin_type,
                                        PatternDays * HoursPerDay)
                inflow  == SumAmounts({r \in rows : ~r.is_outgoing})
                outflow == SumAmounts({r \in rows : r.is_outgoing})
            IN  /\ x.value.pattern = Some("accumulating") => inflow > outflow
                /\ x.value.pattern = Some("distributing") => outflow > inflow

\* C32 as stated: significant_count of a summary is the number of records of
\* the window that are large or exchange-related, and lies between 0 and
\* transaction_count.
C32_SignificantCount ==
    \A x \in analysis :
        (x.call = "generate_summary_stats" /\ SummaryWindow(x) # {}) =>
            /\ x.value.significant_count =
                   Cardinality({r \in SummaryWindow(x) :
                                   IsLargeTransaction(r) \/ IsExchangeTransfer(r)})
            /\ 0 <= x.value.significant_count
            /\ x.value.significant_count <= x.value.transaction_count

\* C35 as stated: when a check of a wallet has ended, wallet_tracking holds
\* a row of that wallet and coin with last_block_height 0 or higher, also
\* when the check fetched no transaction or none that gives a record.
C35_CursorExistsAfterPoll ==
    \A p \in SeqPollers :
        pc[p] \in {"returned", "error"} =>
            /\ RowsOf(wallet[p]) # {}
            /\ \A r \in RowsOf(wallet[p]) : r.last_block_height >= 0

\* C36 as stated: when a check has ended, every record it inserted into
\* the table is in the list it returned, also when an error ended it after
\* some of the batch was inserted.
C36_InsertedIsReturned ==
    \A p \in SeqPollers :
        pc[p] \in {"returned", "error"} =>
            \A k \in hist[p].inserted : \E i \in DOMAIN ret[p] : TxKey(ret[p][i]) = k

\* C37 as stated: when a check has ended without a crash, checks running
\* one after the other, the stored cursor of the wallet is at least the
\* block_height of every stored record of the wallet.
C37_CursorCoversStored ==
    \A p \in SeqPollers :
        pc[p] \in {"returned", "error"} =>
            \A r \in transactions :
                (r.wallet_address = wallet[p].address /\ r.coin_type = wallet[p].coin_type)
                    => Cursor(wallet[p]) >= r.block_height

\* The age in hours of the oldest row of the wallet detected in the last 30
\* days.
OldestAge(wallet_address, coin_type) ==
    LET history == WalletWindow(wallet_address, coin_type, HistoryDays * HoursPerDay)
        oldest  == CHOOSE r \in history : \A q \in history : r.detected_at <= q.detected_at
    IN  now - oldest.detected_at

C39_QuietWalletScoresNothing ==
    \A x \in analysis :
        (/\ x.call = "analyze_transaction"
         /\ ~IsLargeTransaction(x.tx)
         /\ ~IsExchangeTransfer(x.tx)
         /\ WalletWindow(x.tx.wallet_address, x.tx.coin_type,
                         HistoryDays * HoursPerDay) = {}) =>
            /\ x.value.significance_score = 0
            /\ x.value.pattern = None
            /\ x.value.tags = <<>>

\* C33 as stated: no step deletes a cursor or lowers its height or its
\* count; a purge removes only rows detected more than 30 days before it and
\* leaves wallet_tracking as it is; and no step stores a record with the
\* key of a purged row again.
C33_PurgeKeepsCursors ==
    [][/\ \A r \in wallet_tracking : \E q \in wallet_tracking' :
              /\ q.wallet_address = r.wallet_address
              /\ q.coin_type = r.coin_type
              /\ q.last_block_height >= r.last_block_height
              /\ q.transaction_count >= r.transaction_count
       /\ purged' # purged =>
              /\ wallet_tracking' = wallet_tracking
              /\ \A r \in transactions \ transactions' :
                     detected[TxKey(r)] < now - RetentionDays * HoursPerDay
       /\ \A k \in purged : k \notin StoredKeys(transactions')]_vars

\* The calls of the digest job in the log, by position.
JobAt(i) == digest_jobs[i].outcome # "started"
SentAt(i) == digest_jobs[i].outcome = "sent"
SameDate(i, j) == digest_jobs[i].date = digest_jobs[j].date
\* The application was started between the entries i and j.
StartedBetween(i, j) ==
    \E k \in DOMAIN digest_jobs : i < k /\ k < j /\ digest_jobs[k].outcome = "started"

\* C34 as stated: of all calls of the digest job, at most one per date
\* sends the digest; after one that sent it every later call on that date
\* sends nothing; and the call after one whose send failed, on the same
\* date, tries again.
C34_OneDigestPerDate ==
    /\ \A i, j \in DOMAIN digest_jobs :
           (i < j /\ SentAt(i) /\ JobAt(j) /\ SameDate(i, j))
               => digest_jobs[j].outcome = "skipped"
    /\ \A i, j \in DOMAIN digest_jobs :
           (j = i + 1 /\ digest_jobs[i].outcome = "failed" /\ JobAt(j) /\ SameDate(i, j))
               => digest_jobs[j].outcome # "skipped"

\* C34, amended: the same of the calls of one run of the application, that
\* is of calls with no start of the application between them.
C34_OneDigestPerDateAndRun ==
    /\ \A i, j \in DOMAIN digest_jobs :
           (i < j /\ SentAt(i) /\ JobAt(j) /\ SameDate(i, j) /\ ~StartedBetween(i, j))
               => digest_jobs[j].outcome = "skipped"
    /\ \A i, j \in DOMAIN digest_jobs :
           (j = i + 1 /\ digest_jobs[i].outcome = "failed" /\ JobAt(j) /\ SameDate(i, j))
               => digest_jobs[j].outcome # "skipped"

\* C34 witness: on one date a send failed, the next call sent the digest
\* and the call after it sent nothing.
C34_Witness ==
    \E i \in DOMAIN digest_jobs :
        /\ i + 2 \in DOMAIN digest_jobs
        /\ digest_jobs[i].outcome = "failed"
        /\ digest_jobs[i + 1].outcome = "sent"
        /\ digest_jobs[i + 2].outcome = "skipped"
        /\ SameDate(i, i + 1) /\ SameDate(i, i + 2)

====
